---- MODULE Spec2Model ----
(***************************************************************************)
(* A model of the Wren language service of the VS Code extension:          *)
(* the Document Cache and the External File Cache of WrenLanguageService,  *)
(* the host events that drive them, and the import-graph traversal of      *)
(* getWorkspaceAggregate.                                                   *)
(***************************************************************************)
EXTENDS Integers, Sequences, FiniteSets, TLC

(***************************************************************************)
(* Bounds of the model.                                                    *)
(***************************************************************************)

\* Largest version number an open document reaches.
MaxVersion == 2

\* Largest modification time a disk file takes (mtimes are 1..MaxMtime).
MaxMtime == 2

\* Largest number of import statements of the root file of an aggregate.
MaxImports == 2

\* Number of collected entries at which the traversal is cut off.
MaxResults == 9

(***************************************************************************)
(* The environment: paths, source texts, configuration values.             *)
(***************************************************************************)

\* The files of the workspace, by canonical fsPath.
Paths == {"/ws/a.wren", "/ws/b.wren", "/ws/c.wren"}

\* The files that the editor opens and that are loaded while the editor,
\* the settings and the disk change.
EditorFiles == {"/ws/a.wren", "/ws/b.wren"}

\* An optional value is a sequence of length 0 (absent) or 1 (present).
None == << >>

Some(x) == << x >>

\* An import statement of a source text: the module name as written and the
\* optional list of names after `for`.
ImportStmt(m, vars) == [moduleName |-> m, variables |-> vars]

\* A method declaration of a source text.
MethodDecl(n, ps, st, ct) ==
    [name |-> n, parameters |-> ps, staticKeyword |-> st, constructKeyword |-> ct]

\* The class declarations of the two source texts below.
ClassesA ==
    << [name |-> "Foo",
        methods |-> << MethodDecl("new", << >>, FALSE, TRUE),
                       MethodDecl("bar", << "x" >>, FALSE, FALSE) >>] >>

ClassesB ==
    << [name |-> "Foo",
        methods |-> << MethodDecl("bar", << "x" >>, FALSE, FALSE),
                       MethodDecl("make", << >>, TRUE, FALSE) >>],
       [name |-> "Baz",
        methods |-> << MethodDecl("qux", << >>, FALSE, FALSE) >>],
       [name |-> "Solo",
        methods |-> << MethodDecl("only", << >>, FALSE, FALSE) >>] >>

\* What the analyzer reports about a source text that has an unused variable.
UnusedVariable == [code |-> "unused-variable", range |-> 0, severity |-> "Warning"]

\* The source texts an editor or a disk write can give a file: the top-level
\* class declarations and import statements, in source order, and what the
\* analyzer (a separate package) reports about the text.
TextA == [classes |-> ClassesA, imports |-> << >>, rawDiagnostics |-> << >>]

TextB ==
    [classes |-> ClassesB, imports |-> << ImportStmt("a", None) >>,
     rawDiagnostics |-> << UnusedVariable >>]

Texts == {TextA, TextB}

\* The language modes of an open document.
LanguageIds == {"wren", "plaintext"}

\* An edit changes the text of a document.
Edited(text) == IF text = TextA THEN TextB ELSE TextA

\* The file the user edits and other programs rewrite or delete; the other
\* files stay on disk as they are, and are opened as wren documents, closed,
\* queried and loaded.
WorkFile == "/ws/a.wren"

\* The text of the disk files: a write gives a file a new mtime.
DiskText == TextA

\* The values the setting wren.additionalModuleDirectories takes.
DirSettings == { << "", "lib" >>, << "lib", "/ws/lib", "/lib" >> }

\* vscode.workspace.workspaceFolders, as fsPaths.
WorkspaceFolders == << "/ws" >>

\* path.dirname of a file.
Dirname(fsPath) ==
    IF fsPath = "/ws/sub/d.wren" THEN "/ws/sub"
    ELSE IF fsPath = "/lib/e.wren" THEN "/lib"
    ELSE "/ws"

\* !entry || !entry.trim()
IsBlank(entry) == entry \in {"", " "}

\* path.isAbsolute
IsAbsolute(entry) == entry \in {"/lib", "/ws/lib", "/ws"}

\* path.resolve(folder, entry) for a relative entry.
PathResolve(folder, entry) ==
    IF folder = "/ws" /\ entry = "lib" THEN "/ws/lib"
    ELSE IF folder = "/ws" /\ entry = "sub" THEN "/ws/sub"
    ELSE IF folder = "/ws" /\ entry = "." THEN "/ws"
    ELSE "/ws/other"

(***************************************************************************)
(* Maps (the JavaScript Map of the caches): functions on their key set.    *)
(***************************************************************************)

EmptyMap == << >>

MapHas(m, k) == k \in DOMAIN m

MapSet(m, k, v) == [x \in (DOMAIN m) \cup {k} |-> IF x = k THEN v ELSE m[x]]

MapDelete(m, k) == [x \in (DOMAIN m) \ {k} |-> m[x]]

\* paths.includes(x)
Includes(paths, x) == \E i \in 1..Len(paths) : paths[i] = x

\* if (!paths.includes(root)) paths.push(root), for every root of `roots`.
RECURSIVE PushNew(_, _)
PushNew(paths, roots) ==
    IF roots = << >> THEN paths
    ELSE PushNew(IF Includes(paths, Head(roots)) THEN paths
                 ELSE Append(paths, Head(roots)),
                 Tail(roots))

(***************************************************************************)
(* The state.                                                              *)
(***************************************************************************)

VARIABLES
    textDocuments,          \* vscode.workspace.textDocuments: open path -> [version, text]
    disk,                   \* the files on disk: existing path -> [mtime, text]
    configuration,          \* the settings of section `wren`
    documentCache,          \* WrenLanguageService.documentCache
    externalCache,          \* WrenLanguageService.externalCache
    additionalSearchRoots,  \* WrenLanguageService.additionalSearchRoots
    enableDiagnostics,      \* WrenLanguageService.enableDiagnostics
    load,                   \* the loadIndex call in flight, between its awaits
    last,                   \* what the call of the last step did and returned
    agg,                    \* the getWorkspaceAggregate call in flight
    diag,                   \* the getDiagnostics call in flight, between its awaits
    request                 \* a provider's request: its input and, once answered, its result

vars == << textDocuments, disk, configuration, documentCache, externalCache,
           additionalSearchRoots, enableDiagnostics, load, last, agg, diag, request >>

(***************************************************************************)
(* Analysis of one document (astIndex).                                    *)
(***************************************************************************)

\* buildMethodSymbol: `file` stands for the symbol's source range, which
\* identifies the declaration the symbol object was built from.
buildMethodSymbol(fsPath, className, method) ==
    [name |-> method.name,
     params |-> method.parameters,
     isStatic |-> method.staticKeyword,
     isConstructor |-> method.constructKeyword,
     className |-> className,
     file |-> fsPath]

\* buildClassSymbol: static symbols go to staticMethods, the others to methods.
buildClassSymbol(fsPath, cls) ==
    LET syms == [i \in 1..Len(cls.methods) |->
                    buildMethodSymbol(fsPath, cls.name, cls.methods[i])]
    IN  [name |-> cls.name,
         methods |-> SelectSeq(syms, LAMBDA s : ~s.isStatic),
         staticMethods |-> SelectSeq(syms, LAMBDA s : s.isStatic)]

\* The module names that the import statements of the model write; none
\* has the extension.
ModuleNames == {"a", "b", "c", "nowhere", "random", "meta"}

\* '.wren'
Extension == << ".", "w", "r", "e", "n" >>

\* The characters of a module name.
ModuleChars(moduleName) ==
    CASE moduleName = "a" -> << "a" >>
      [] moduleName = "b" -> << "b" >>
      [] moduleName = "c" -> << "c" >>
      [] moduleName = "meta" -> << "m", "e", "t", "a" >>
      [] moduleName = "random" -> << "r", "a", "n", "d", "o", "m" >>
      [] moduleName = "nowhere" -> << "n", "o", "w", "h", "e", "r", "e" >>

\* The characters of an import string of the model: a module name, or a
\* module name with the extension.
Chars(text) ==
    IF text \in ModuleNames THEN ModuleChars(text)
    ELSE ModuleChars(CHOOSE m \in ModuleNames : text = m \o ".wren") \o Extension

\* The string of a sequence of characters.
RECURSIVE Join(_)
Join(chars) == IF chars = << >> THEN "" ELSE Head(chars) \o Join(Tail(chars))

\* The white space that String.prototype.trim removes.
StrWhiteSpace == {" ", "\t"}

\* value.trim()
trim(value) ==
    LET ink == { k \in DOMAIN value : value[k] \notin StrWhiteSpace }
    IN  IF ink = {} THEN << >>
        ELSE SubSeq(value, CHOOSE k \in ink : \A j \in ink : k <= j,
                           CHOOSE k \in ink : \A j \in ink : k >= j)

\* text.endsWith(suffix), text.startsWith(prefix)
endsWith(text, suffix) ==
    /\ Len(text) >= Len(suffix)
    /\ SubSeq(text, Len(text) - Len(suffix) + 1, Len(text)) = suffix

startsWith(text, prefix) ==
    /\ Len(text) >= Len(prefix)
    /\ SubSeq(text, 1, Len(prefix)) = prefix

\* text.replace(/\\/g, '/')
replaceBackslashes(text) ==
    [i \in DOMAIN text |-> IF text[i] = "\\" THEN "/" ELSE text[i]]

\* The segments of a path between its separators.
RECURSIVE split(_)
split(text) ==
    LET slashes == { k \in DOMAIN text : text[k] = "/" }
    IN  IF slashes = {} THEN << text >>
        ELSE LET k == CHOOSE i \in slashes : \A j \in slashes : i <= j
             IN  << SubSeq(text, 1, k - 1) >> \o split(SubSeq(text, k + 1, Len(text)))

\* The segments joined by separators.
RECURSIVE joinSegments(_)
joinSegments(segments) ==
    IF segments = << >> THEN << >>
    ELSE IF Len(segments) = 1 THEN Head(segments)
    ELSE Head(segments) \o << "/" >> \o joinSegments(Tail(segments))

\* normalizeString of path.posix: empty and "." segments are dropped, a
\* ".." takes the segment before it away and, when there is none, stays
\* if the path may go above its start.
RECURSIVE normalizeString(_, _, _)
normalizeString(segments, allowAboveRoot, res) ==
    IF segments = << >> THEN res
    ELSE LET seg == Head(segments)
             kept == IF seg = << >> \/ seg = << "." >> THEN res
                     ELSE IF seg = << ".", "." >>
                     THEN IF res # << >> /\ res[Len(res)] # << ".", "." >>
                          THEN SubSeq(res, 1, Len(res) - 1)
                          ELSE IF allowAboveRoot THEN Append(res, seg) ELSE res
                     ELSE Append(res, seg)
         IN  normalizeString(Tail(segments), allowAboveRoot, kept)

\* path.normalize(path), with POSIX separators.
pathNormalize(path) ==
    IF path = << >> THEN << "." >>
    ELSE LET isAbsolute == path[1] = "/"
             trailingSeparator == path[Len(path)] = "/"
             body == joinSegments(normalizeString(split(path), ~isAbsolute, << >>))
         IN  IF body = << >>
             THEN IF isAbsolute THEN << "/" >>
                  ELSE IF trailingSeparator THEN << ".", "/" >> ELSE << "." >>
             ELSE (IF isAbsolute THEN << "/" >> ELSE << >>)
                  \o body
                  \o (IF trailingSeparator THEN << "/" >> ELSE << >>)

\* A slip: the extension is appended whatever the end of the string.
normalizeImportPath_AlwaysAppend(value) ==
    LET withExtension == trim(value) \o Extension
        relative == IF ~startsWith(withExtension, << ".", "/" >>)
                       /\ ~startsWith(withExtension, << ".", ".", "/" >>)
                    THEN << ".", "/" >> \o withExtension ELSE withExtension
    IN  pathNormalize(replaceBackslashes(relative))

\* normalizeImportPath(value), on the characters of the string.
normalizeImportPath(value) ==
    LET trimmed == trim(value)
        withExtension == IF ~endsWith(trimmed, Extension)
                         THEN trimmed \o Extension ELSE trimmed
        relative == IF ~startsWith(withExtension, << ".", "/" >>)
                       /\ ~startsWith(withExtension, << ".", ".", "/" >>)
                    THEN << ".", "/" >> \o withExtension ELSE withExtension
        sanitized == replaceBackslashes(relative)
    IN  pathNormalize(sanitized)

\* The import strings of the modelled programs: module names as written, and
\* the paths they are normalized to.
ImportTexts == ModuleNames \cup { moduleName \o ".wren" : moduleName \in ModuleNames }

\* normalizeImportPath on each of them, as strings.
normalizedImportPath == [text \in ImportTexts |-> Join(normalizeImportPath(Chars(text)))]

\* The import symbol of the i-th import statement of a text: the module
\* name as written, the normalized path, the range of the path token (the
\* statement's place in the text) and the names after `for`.
buildImportSymbol(stmt, i) ==
    [moduleName |-> stmt.moduleName,
     path |-> normalizedImportPath[stmt.moduleName],
     range |-> i,
     variables |-> stmt.variables]

\* analyzeDocument(document, searchPaths): the index carries the document's
\* path and version, and the classes and imports of its text; the analyzer's
\* diagnostics are converted one by one.  The function declares one
\* parameter, so the search paths do not reach it.
analyzeDocument(document, searchPaths) ==
    [index |-> [fsPath |-> document.fsPath,
                version |-> document.version,
                classes |-> [i \in 1..Len(document.text.classes) |->
                               buildClassSymbol(document.fsPath, document.text.classes[i])],
                imports |-> [i \in 1..Len(document.text.imports) |->
                               buildImportSymbol(document.text.imports[i], i)]],
     diagnostics |-> [i \in 1..Len(document.text.rawDiagnostics) |->
                        [range |-> document.text.rawDiagnostics[i].range,
                         severity |-> document.text.rawDiagnostics[i].severity,
                         source |-> "wren-analyzer",
                         code |-> document.text.rawDiagnostics[i].code]]]

(***************************************************************************)
(* WrenLanguageService: the methods, as functions of the current state.    *)
(***************************************************************************)

\* refreshConfiguration: the search roots computed from the user's setting,
\* in insertion order of the Set, without blanks and without duplicates.
RECURSIVE refreshRoots(_, _)
refreshRoots(userPaths, roots) ==
    IF userPaths = << >> THEN roots
    ELSE LET entry == Head(userPaths)
             added ==
                 IF IsBlank(entry) THEN roots
                 ELSE IF IsAbsolute(entry) THEN PushNew(roots, << entry >>)
                 ELSE PushNew(roots, [i \in 1..Len(WorkspaceFolders) |->
                                         PathResolve(WorkspaceFolders[i], entry)])
         IN  refreshRoots(Tail(userPaths), added)

\* refreshConfiguration: the two fields it assigns, read from settings `cfg`.
refreshConfiguration(cfg) ==
    [additionalSearchRoots |-> refreshRoots(cfg.additionalModuleDirectories, << >>),
     enableDiagnostics |-> cfg.enableDiagnostics]

\* event.affectsConfiguration('wren.additionalModuleDirectories'), or no event.
AffectsDirectories(event) == event = None \/ event[1].affectsDirectories

\* event.affectsConfiguration('wren.enableDiagnostics')
AffectsDiagnostics(event) == event # None /\ event[1].affectsDiagnostics

\* A slip: the roots are refreshed and the External File Cache is kept.
handleConfigurationChange_KeepCache(event, cfg) ==
    LET fresh == refreshConfiguration(cfg)
        any == AffectsDirectories(event) \/ AffectsDiagnostics(event)
    IN  [additionalSearchRoots |->
             IF any THEN fresh.additionalSearchRoots ELSE additionalSearchRoots,
         enableDiagnostics |->
             IF any THEN fresh.enableDiagnostics ELSE enableDiagnostics,
         externalCache |-> externalCache]

\* handleConfigurationChange(event), run with settings `cfg` in force: the
\* fields and the External File Cache it leaves.
handleConfigurationChange(event, cfg) ==
    LET fresh == refreshConfiguration(cfg)
        any == AffectsDirectories(event) \/ AffectsDiagnostics(event)
    IN  [additionalSearchRoots |->
             IF any THEN fresh.additionalSearchRoots ELSE additionalSearchRoots,
         enableDiagnostics |->
             IF any THEN fresh.enableDiagnostics ELSE enableDiagnostics,
         externalCache |->
             IF AffectsDirectories(event) THEN EmptyMap ELSE externalCache]

\* A slip: only an entry of an older version is deleted.
invalidateDocument_IfStale(document) ==
    IF MapHas(documentCache, document.fsPath)
       /\ documentCache[document.fsPath].index.version = document.version
    THEN documentCache
    ELSE MapDelete(documentCache, document.fsPath)

\* invalidateDocument(document): the Document Cache it leaves.
invalidateDocument(document) == MapDelete(documentCache, document.fsPath)

\* A slip: the External File Cache keeps its entry.
evictPath_DocumentOnly(fsPath) ==
    [documentCache |-> MapDelete(documentCache, fsPath),
     externalCache |-> externalCache]

\* evictPath(fsPath): the two caches it leaves.
evictPath(fsPath) ==
    [documentCache |-> MapDelete(documentCache, fsPath),
     externalCache |-> MapDelete(externalCache, fsPath)]

\* getSearchPaths(document): the file's directory, the workspace folders,
\* the additional roots.
getSearchPaths(document) ==
    PushNew(PushNew(<< Dirname(document.fsPath) >>, WorkspaceFolders),
            additionalSearchRoots)

\* A slip: the cache is never consulted.
analyzeAndCache_AlwaysAnalyze(document) ==
    LET entry == analyzeDocument(document, getSearchPaths(document))
    IN  [entry |-> entry,
         documentCache |-> MapSet(documentCache, document.fsPath, entry),
         analyzerCalls |-> 1]

\* A slip: an entry is used whatever its version.
analyzeAndCache_AnyVersion(document) ==
    IF MapHas(documentCache, document.fsPath)
    THEN [entry |-> documentCache[document.fsPath],
          documentCache |-> documentCache,
          analyzerCalls |-> 0]
    ELSE analyzeAndCache_AlwaysAnalyze(document)

\* analyzeAndCache(document): the entry it returns, the Document Cache it
\* leaves and the number of analyzer calls it made.
analyzeAndCache(document) ==
    LET key == document.fsPath
    IN  IF MapHas(documentCache, key)
           /\ documentCache[key].index.version = document.version
        THEN [entry |-> documentCache[key],
              documentCache |-> documentCache,
              analyzerCalls |-> 0]
        ELSE LET entry == analyzeDocument(document, getSearchPaths(document))
             IN  [entry |-> entry,
                  documentCache |-> MapSet(documentCache, key, entry),
                  analyzerCalls |-> 1]

\* vscode.workspace.textDocuments.find(doc => doc.uri.fsPath === fsPath)
IsOpen(fsPath) == fsPath \in DOMAIN textDocuments

\* The open document at a path, as the host hands it to a handler.
Document(fsPath) ==
    [fsPath |-> fsPath,
     version |-> textDocuments[fsPath].version,
     text |-> textDocuments[fsPath].text]

(***************************************************************************)
(* What the call of a step did, for the properties to read: the method and *)
(* its path argument, the analyzer and stat calls it made, the analysis it *)
(* returned (absent: no index), what failed inside it, and the number of   *)
(* cache entries it removed.                                               *)
(***************************************************************************)

Call(op, fsPath, analyzerCalls, statCalls, entry, failed, removed) ==
    [op |-> op, path |-> fsPath, analyzerCalls |-> analyzerCalls,
     statCalls |-> statCalls, entry |-> entry, failed |-> failed,
     removed |-> removed]

\* A call that returned the analysis `entry`.
Returned(op, fsPath, analyzerCalls, statCalls, entry) ==
    Call(op, fsPath, analyzerCalls, statCalls, Some(entry), "", 0)

\* A loadIndex call that caught a failure and returned no index.
Caught(fsPath, analyzerCalls, failed) ==
    Call("loadIndex", fsPath, analyzerCalls, 1, None, failed, 0)

\* A call that removed cache entries and returned nothing.
Removed(op, fsPath, removed) == Call(op, fsPath, 0, 0, None, "", removed)

\* A step of the host or of a pending call in which no call completes.
NoCall == Call("none", "", 0, 0, None, "", 0)

\* The number of entries of map `before` that map `after` no longer has.
Dropped(before, after) == Cardinality((DOMAIN before) \ (DOMAIN after))

\* No loadIndex call in flight.
Idle == [pc |-> "idle", path |-> "", mtime |-> 0]

(***************************************************************************)
(* Initial state: the service has been constructed (refreshConfiguration   *)
(* has run), no document is open, nothing is cached.                       *)
(***************************************************************************)

Settings ==
    [additionalModuleDirectories : DirSettings, enableDiagnostics : BOOLEAN]

DiskFile(mtime) == [mtime |-> mtime, text |-> DiskText]

\* No getWorkspaceAggregate call in flight.
NoAggregate ==
    [pc |-> "idle", root |-> "", results |-> << >>, visited |-> {},
     pending |-> << >>, current |-> "", todo |-> << >>, classes |-> EmptyMap, written |-> {},
     resolveCalls |-> 0]

\* No getDiagnostics call in flight.
NoDiagnosticsCall ==
    [pc |-> "idle", fsPath |-> "", imports |-> << >>, todo |-> << >>,
     candidates |-> None, diagnostics |-> << >>, analyzerCalls |-> 0,
     statCalls |-> 0, repeated |-> FALSE, seen |-> << >>, steady |-> TRUE]

\* No provider request.
NoRequest == [pc |-> "idle"]

Init ==
    /\ textDocuments = EmptyMap
    /\ \E files \in {Paths, Paths \ {WorkFile}} : disk = [f \in files |-> DiskFile(1)]
    /\ configuration \in Settings
    /\ documentCache = EmptyMap
    /\ externalCache = EmptyMap
    /\ additionalSearchRoots = refreshConfiguration(configuration).additionalSearchRoots
    /\ enableDiagnostics = refreshConfiguration(configuration).enableDiagnostics
    /\ load = Idle
    /\ last = NoCall
    /\ agg = NoAggregate
    /\ diag = NoDiagnosticsCall
    /\ request = NoRequest

(***************************************************************************)
(* Host events and their handlers (activate).                              *)
(***************************************************************************)

\* The host opens the file at fsPath as a document at version 1, in
\* language mode languageId; onDidOpenTextDocument runs refreshDiagnostics,
\* which queries getDiagnostics for a wren document.
OnDidOpenTextDocument(fsPath, languageId) ==
    /\ ~IsOpen(fsPath)
    /\ MapHas(disk, fsPath)
    /\ languageId # "wren" => fsPath = WorkFile
    /\ textDocuments' = MapSet(textDocuments, fsPath,
                               [version |-> 1, text |-> disk[fsPath].text,
                                languageId |-> languageId])
    /\ IF languageId = "wren"
       THEN LET document == [fsPath |-> fsPath, version |-> 1,
                             text |-> disk[fsPath].text]
                r == analyzeAndCache(document)
            IN  /\ documentCache' = r.documentCache
                /\ last' = Returned("query", fsPath, r.analyzerCalls, 0, r.entry)
       ELSE /\ UNCHANGED documentCache
            /\ last' = NoCall
    /\ UNCHANGED << disk, configuration, externalCache, additionalSearchRoots,
                    enableDiagnostics, load, agg, diag, request >>

\* The host reports a change of the open work file: an edit, which gives it
\* a new text and the next version, or a change of its dirty state, which
\* leaves text and version alone.  The handler invalidates a wren document.
OnDidChangeTextDocument(fsPath, edited) ==
    /\ IsOpen(fsPath)
    /\ fsPath = WorkFile
    /\ IF edited
       THEN /\ textDocuments[fsPath].version < MaxVersion
            /\ textDocuments' =
                   [textDocuments EXCEPT ![fsPath] =
                       [@ EXCEPT !.version = @ + 1, !.text = Edited(@)]]
       ELSE UNCHANGED textDocuments
    /\ IF textDocuments[fsPath].languageId = "wren"
       THEN /\ documentCache' =
                   invalidateDocument([fsPath |-> fsPath,
                                       version |-> textDocuments'[fsPath].version,
                                       text |-> textDocuments'[fsPath].text])
            /\ last' = Removed("invalidateDocument", fsPath,
                               Dropped(documentCache, documentCache'))
       ELSE /\ UNCHANGED documentCache
            /\ last' = NoCall
    /\ UNCHANGED << disk, configuration, externalCache, additionalSearchRoots,
                    enableDiagnostics, load, agg, diag, request >>

\* The host closes a document; the handler evicts the path of a wren document.
OnDidCloseTextDocument(fsPath) ==
    /\ IsOpen(fsPath)
    /\ textDocuments' = MapDelete(textDocuments, fsPath)
    /\ IF textDocuments[fsPath].languageId = "wren"
       THEN /\ documentCache' = evictPath(fsPath).documentCache
            /\ externalCache' = evictPath(fsPath).externalCache
            /\ last' = Removed("evictPath", fsPath,
                               Dropped(documentCache, documentCache')
                               + Dropped(externalCache, externalCache'))
       ELSE /\ UNCHANGED << documentCache, externalCache >>
            /\ last' = NoCall
    /\ UNCHANGED << disk, configuration, additionalSearchRoots, enableDiagnostics,
                    load, agg, diag, request >>

\* The settings change to cfg and the host calls handleConfigurationChange
\* with an event that affects at least the settings that changed; or the
\* handler is called with no event.
OnDidChangeConfiguration(cfg, event) ==
    /\ \/ /\ event = None
          /\ cfg = configuration
       \/ /\ event # None
          /\ cfg.additionalModuleDirectories # configuration.additionalModuleDirectories
                => event[1].affectsDirectories
          /\ cfg.enableDiagnostics # configuration.enableDiagnostics
                => event[1].affectsDiagnostics
    /\ configuration' = cfg
    /\ LET r == handleConfigurationChange(event, cfg)
       IN  /\ additionalSearchRoots' = r.additionalSearchRoots
           /\ enableDiagnostics' = r.enableDiagnostics
           /\ externalCache' = r.externalCache
    /\ last' = Removed(IF AffectsDirectories(event)
                       THEN "handleConfigurationChange(directories)"
                       ELSE "handleConfigurationChange(other)",
                       "", Dropped(externalCache, externalCache'))
    /\ UNCHANGED << textDocuments, disk, documentCache, load, agg, diag, request >>

\* Another program writes the work file, which gives it another mtime, or
\* deletes it.
DiskWrite(fsPath, mtime) ==
    /\ fsPath = WorkFile
    /\ MapHas(disk, fsPath) => disk[fsPath].mtime # mtime
    /\ disk' = MapSet(disk, fsPath, DiskFile(mtime))
    /\ last' = NoCall
    /\ UNCHANGED << textDocuments, configuration, documentCache, externalCache,
                    additionalSearchRoots, enableDiagnostics, load, agg, diag, request >>

DiskDelete(fsPath) ==
    /\ fsPath = WorkFile
    /\ MapHas(disk, fsPath)
    /\ disk' = MapDelete(disk, fsPath)
    /\ last' = NoCall
    /\ UNCHANGED << textDocuments, configuration, documentCache, externalCache,
                    additionalSearchRoots, enableDiagnostics, load, agg, diag, request >>

(***************************************************************************)
(* Queries on an open document.                                            *)
(***************************************************************************)

\* getFileIndex, getDiagnostics, getTypedLocals, which the providers call on
\* an open wren document: each returns a part of the entry that
\* analyzeAndCache returns.
Query(fsPath) ==
    /\ IsOpen(fsPath)
    /\ textDocuments[fsPath].languageId = "wren"
    /\ LET r == analyzeAndCache(Document(fsPath))
       IN  /\ documentCache' = r.documentCache
           /\ last' = Returned("query", fsPath, r.analyzerCalls, 0, r.entry)
    /\ UNCHANGED << textDocuments, disk, configuration, externalCache,
                    additionalSearchRoots, enableDiagnostics, load, agg, diag, request >>

getFileIndex(fsPath) == Query(fsPath)

getDiagnostics(fsPath) == Query(fsPath)

getTypedLocals(fsPath) == Query(fsPath)

(***************************************************************************)
(* loadIndex(fsPath), one action per stretch between its awaits.  The      *)
(* actions leave `agg` to the caller.                                      *)
(***************************************************************************)

\* What an attempt to read and analyse a disk file comes to.
Outcomes == {"ok", "readError", "analysisError"}

\* A slip: the file is statted whether or not a document is open at the path.
LoadIndexCall_DiskFirst(fsPath) ==
    /\ load.pc = "idle"
    /\ load' = [pc |-> "stat", path |-> fsPath, mtime |-> 0]
    /\ last' = NoCall
    /\ UNCHANGED << textDocuments, disk, configuration, documentCache, externalCache,
                    additionalSearchRoots, enableDiagnostics >>

\* The call up to `await fs.stat`: an open document at the path is handed
\* to getFileIndex and the call returns; otherwise the stat is issued.
LoadIndexCall(fsPath) ==
    /\ load.pc = "idle"
    /\ IF IsOpen(fsPath)
       THEN LET r == analyzeAndCache(Document(fsPath))
            IN  /\ documentCache' = r.documentCache
                /\ last' = Returned("loadIndex", fsPath, r.analyzerCalls, 0, r.entry)
                /\ UNCHANGED load
       ELSE /\ load' = [pc |-> "stat", path |-> fsPath, mtime |-> 0]
            /\ last' = NoCall
            /\ UNCHANGED documentCache
    /\ UNCHANGED << textDocuments, disk, configuration, externalCache,
                    additionalSearchRoots, enableDiagnostics >>

\* A slip: an entry is returned whatever its mtime.
LoadIndexStat_AnyMtime ==
    /\ load.pc = "stat"
    /\ LET fsPath == load.path
       IN  IF ~MapHas(disk, fsPath)
           THEN /\ last' = Caught(fsPath, 0, "stat")
                /\ load' = Idle
           ELSE IF MapHas(externalCache, fsPath)
           THEN /\ last' = Returned("loadIndex", fsPath, 0, 1,
                                    externalCache[fsPath].analysis)
                /\ load' = Idle
           ELSE /\ last' = NoCall
                /\ load' = [pc |-> "open", path |-> fsPath,
                            mtime |-> disk[fsPath].mtime]
    /\ UNCHANGED << textDocuments, disk, configuration, documentCache, externalCache,
                    additionalSearchRoots, enableDiagnostics >>

\* The stat completes: it throws for a missing file (caught: no index); a
\* cached entry of the same mtime is returned; otherwise the file is opened.
LoadIndexStat ==
    /\ load.pc = "stat"
    /\ LET fsPath == load.path
       IN  IF ~MapHas(disk, fsPath)
           THEN /\ last' = Caught(fsPath, 0, "stat")
                /\ load' = Idle
           ELSE IF MapHas(externalCache, fsPath)
                   /\ externalCache[fsPath].mtime = disk[fsPath].mtime
           THEN /\ last' = Returned("loadIndex", fsPath, 0, 1,
                                    externalCache[fsPath].analysis)
                /\ load' = Idle
           ELSE /\ last' = NoCall
                /\ load' = [pc |-> "open", path |-> fsPath,
                            mtime |-> disk[fsPath].mtime]
    /\ UNCHANGED << textDocuments, disk, configuration, documentCache, externalCache,
                    additionalSearchRoots, enableDiagnostics >>

\* A slip: the analysis is stored before its failure is noticed.
LoadIndexOpen_StoreFirst(outcome) ==
    /\ load.pc = "open"
    /\ LET fsPath == load.path
           diskDocument ==
               [fsPath |-> fsPath, version |-> 1, text |-> disk[fsPath].text]
       IN  /\ ~MapHas(disk, fsPath) => outcome = "readError"
           /\ IF outcome = "readError"
              THEN /\ UNCHANGED externalCache
                   /\ last' = Caught(fsPath, 0, "read")
              ELSE LET analysis ==
                           analyzeDocument(diskDocument, getSearchPaths(diskDocument))
                   IN  /\ externalCache' =
                              MapSet(externalCache, fsPath,
                                     [analysis |-> analysis, mtime |-> load.mtime])
                       /\ last' = IF outcome = "ok"
                                  THEN Returned("loadIndex", fsPath, 1, 1, analysis)
                                  ELSE Caught(fsPath, 1, "analysis")
    /\ load' = Idle
    /\ UNCHANGED << textDocuments, disk, configuration, documentCache,
                    additionalSearchRoots, enableDiagnostics >>

\* openTextDocument completes with the text on disk, a document at version
\* 1, and the file is analysed: the analysis is stored with the mtime the
\* stat returned.  A failure of the read or of the analysis is caught: no
\* index, nothing stored.
LoadIndexOpen(outcome) ==
    /\ load.pc = "open"
    /\ LET fsPath == load.path
           diskDocument ==
               [fsPath |-> fsPath, version |-> 1, text |-> disk[fsPath].text]
       IN  /\ ~MapHas(disk, fsPath) => outcome = "readError"
           /\ IF outcome = "ok"
              THEN LET analysis ==
                           analyzeDocument(diskDocument, getSearchPaths(diskDocument))
                   IN  /\ externalCache' =
                              MapSet(externalCache, fsPath,
                                     [analysis |-> analysis, mtime |-> load.mtime])
                       /\ last' = Returned("loadIndex", fsPath, 1, 1, analysis)
              ELSE /\ UNCHANGED externalCache
                   /\ last' = Caught(fsPath,
                                     IF outcome = "analysisError" THEN 1 ELSE 0,
                                     IF outcome = "analysisError" THEN "analysis"
                                     ELSE "read")
    /\ load' = Idle
    /\ UNCHANGED << textDocuments, disk, configuration, documentCache,
                    additionalSearchRoots, enableDiagnostics >>

(***************************************************************************)
(* The service under host events, queries and file loads.                  *)
(***************************************************************************)

Events ==
    {None} \cup {Some(e) : e \in [affectsDirectories : BOOLEAN,
                                  affectsDiagnostics : BOOLEAN]}

Next ==
    \/ \E fsPath \in EditorFiles, languageId \in LanguageIds :
           OnDidOpenTextDocument(fsPath, languageId)
    \/ \E fsPath \in EditorFiles, edited \in BOOLEAN :
           OnDidChangeTextDocument(fsPath, edited)
    \/ \E fsPath \in EditorFiles : OnDidCloseTextDocument(fsPath)
    \/ \E cfg \in Settings, event \in Events : OnDidChangeConfiguration(cfg, event)
    \/ \E fsPath \in EditorFiles, mtime \in 1..MaxMtime : DiskWrite(fsPath, mtime)
    \/ \E fsPath \in EditorFiles : DiskDelete(fsPath)
    \/ \E fsPath \in EditorFiles : getFileIndex(fsPath)
    \/ \E fsPath \in EditorFiles : getDiagnostics(fsPath)
    \/ \E fsPath \in EditorFiles : getTypedLocals(fsPath)
    \/ \E fsPath \in EditorFiles : LoadIndexCall(fsPath) /\ UNCHANGED << agg, diag, request >>
    \/ LoadIndexStat /\ UNCHANGED << agg, diag, request >>
    \/ \E outcome \in Outcomes : LoadIndexOpen(outcome) /\ UNCHANGED << agg, diag, request >>

Spec == Init /\ [][Next]_vars

(***************************************************************************)
(* The Built-in Registry (builtins.ts).  A built-in symbol has no source   *)
(* file: its `file` is empty.                                              *)
(***************************************************************************)

method(className, name, params, isStatic, isConstructor) ==
    [name |-> name,
     params |-> params,
     isStatic |-> isStatic,
     isConstructor |-> isConstructor,
     className |-> className,
     file |-> ""]

cls(name, methods, staticMethods) ==
    [name |-> name, methods |-> methods, staticMethods |-> staticMethods]

OBJECT_CLASS ==
    cls("Object",
        << method("Object", "!", << >>, FALSE, FALSE),
           method("Object", "==", << "other" >>, FALSE, FALSE),
           method("Object", "!=", << "other" >>, FALSE, FALSE),
           method("Object", "is", << "class" >>, FALSE, FALSE),
           method("Object", "toString", << >>, FALSE, FALSE),
           method("Object", "type", << >>, FALSE, FALSE) >>,
        << method("Object", "same", << "a", "b" >>, TRUE, FALSE) >>)

CLASS_CLASS ==
    cls("Class",
        << method("Class", "name", << >>, FALSE, FALSE),
           method("Class", "supertype", << >>, FALSE, FALSE),
           method("Class", "toString", << >>, FALSE, FALSE),
           method("Class", "attributes", << >>, FALSE, FALSE) >>,
        << >>)

BOOL_CLASS ==
    cls("Bool",
        << method("Bool", "!", << >>, FALSE, FALSE),
           method("Bool", "toString", << >>, FALSE, FALSE) >>,
        << >>)

NULL_CLASS ==
    cls("Null",
        << method("Null", "!", << >>, FALSE, FALSE),
           method("Null", "toString", << >>, FALSE, FALSE) >>,
        << >>)

NUM_CLASS ==
    cls("Num",
        << method("Num", "-", << "other" >>, FALSE, FALSE),
           method("Num", "+", << "other" >>, FALSE, FALSE),
           method("Num", "*", << "other" >>, FALSE, FALSE),
           method("Num", "/", << "other" >>, FALSE, FALSE),
           method("Num", "%", << "other" >>, FALSE, FALSE),
           method("Num", "<", << "other" >>, FALSE, FALSE),
           method("Num", ">", << "other" >>, FALSE, FALSE),
           method("Num", "<=", << "other" >>, FALSE, FALSE),
           method("Num", ">=", << "other" >>, FALSE, FALSE),
           method("Num", "==", << "other" >>, FALSE, FALSE),
           method("Num", "!=", << "other" >>, FALSE, FALSE),
           method("Num", "&", << "other" >>, FALSE, FALSE),
           method("Num", "|", << "other" >>, FALSE, FALSE),
           method("Num", "^", << "other" >>, FALSE, FALSE),
           method("Num", "<<", << "other" >>, FALSE, FALSE),
           method("Num", ">>", << "other" >>, FALSE, FALSE),
           method("Num", "~", << >>, FALSE, FALSE),
           method("Num", "..", << "other" >>, FALSE, FALSE),
           method("Num", "...", << "other" >>, FALSE, FALSE),
           method("Num", "-", << >>, FALSE, FALSE),
           method("Num", "abs", << >>, FALSE, FALSE),
           method("Num", "acos", << >>, FALSE, FALSE),
           method("Num", "asin", << >>, FALSE, FALSE),
           method("Num", "atan", << >>, FALSE, FALSE),
           method("Num", "atan", << "x" >>, FALSE, FALSE),
           method("Num", "cbrt", << >>, FALSE, FALSE),
           method("Num", "ceil", << >>, FALSE, FALSE),
           method("Num", "cos", << >>, FALSE, FALSE),
           method("Num", "floor", << >>, FALSE, FALSE),
           method("Num", "round", << >>, FALSE, FALSE),
           method("Num", "sin", << >>, FALSE, FALSE),
           method("Num", "sqrt", << >>, FALSE, FALSE),
           method("Num", "tan", << >>, FALSE, FALSE),
           method("Num", "log", << >>, FALSE, FALSE),
           method("Num", "log2", << >>, FALSE, FALSE),
           method("Num", "exp", << >>, FALSE, FALSE),
           method("Num", "pow", << "exponent" >>, FALSE, FALSE),
           method("Num", "fraction", << >>, FALSE, FALSE),
           method("Num", "truncate", << >>, FALSE, FALSE),
           method("Num", "sign", << >>, FALSE, FALSE),
           method("Num", "isInteger", << >>, FALSE, FALSE),
           method("Num", "isNan", << >>, FALSE, FALSE),
           method("Num", "isInfinity", << >>, FALSE, FALSE),
           method("Num", "min", << "other" >>, FALSE, FALSE),
           method("Num", "max", << "other" >>, FALSE, FALSE),
           method("Num", "clamp", << "min", "max" >>, FALSE, FALSE),
           method("Num", "toString", << >>, FALSE, FALSE) >>,
        << method("Num", "fromString", << "value" >>, TRUE, FALSE),
           method("Num", "infinity", << >>, TRUE, FALSE),
           method("Num", "nan", << >>, TRUE, FALSE),
           method("Num", "pi", << >>, TRUE, FALSE),
           method("Num", "tau", << >>, TRUE, FALSE),
           method("Num", "largest", << >>, TRUE, FALSE),
           method("Num", "smallest", << >>, TRUE, FALSE),
           method("Num", "maxSafeInteger", << >>, TRUE, FALSE),
           method("Num", "minSafeInteger", << >>, TRUE, FALSE) >>)

SEQUENCE_CLASS ==
    cls("Sequence",
        << method("Sequence", "all", << "f" >>, FALSE, FALSE),
           method("Sequence", "any", << "f" >>, FALSE, FALSE),
           method("Sequence", "contains", << "element" >>, FALSE, FALSE),
           method("Sequence", "count", << >>, FALSE, FALSE),
           method("Sequence", "count", << "f" >>, FALSE, FALSE),
           method("Sequence", "each", << "f" >>, FALSE, FALSE),
           method("Sequence", "isEmpty", << >>, FALSE, FALSE),
           method("Sequence", "map", << "transformation" >>, FALSE, FALSE),
           method("Sequence", "skip", << "count" >>, FALSE, FALSE),
           method("Sequence", "take", << "count" >>, FALSE, FALSE),
           method("Sequence", "where", << "predicate" >>, FALSE, FALSE),
           method("Sequence", "reduce", << "f" >>, FALSE, FALSE),
           method("Sequence", "reduce", << "acc", "f" >>, FALSE, FALSE),
           method("Sequence", "join", << >>, FALSE, FALSE),
           method("Sequence", "join", << "separator" >>, FALSE, FALSE),
           method("Sequence", "toList", << >>, FALSE, FALSE),
           method("Sequence", "toString", << >>, FALSE, FALSE) >>,
        << >>)

STRING_CLASS ==
    cls("String",
        << method("String", "+", << "other" >>, FALSE, FALSE),
           method("String", "*", << "count" >>, FALSE, FALSE),
           method("String", "==", << "other" >>, FALSE, FALSE),
           method("String", "!=", << "other" >>, FALSE, FALSE),
           method("String", "[", << "index" >>, FALSE, FALSE),
           method("String", "byteAt_", << "index" >>, FALSE, FALSE),
           method("String", "byteCount_", << >>, FALSE, FALSE),
           method("String", "codePointAt_", << "index" >>, FALSE, FALSE),
           method("String", "contains", << "other" >>, FALSE, FALSE),
           method("String", "count", << >>, FALSE, FALSE),
           method("String", "endsWith", << "suffix" >>, FALSE, FALSE),
           method("String", "indexOf", << "search" >>, FALSE, FALSE),
           method("String", "indexOf", << "search", "start" >>, FALSE, FALSE),
           method("String", "iterate", << "iterator" >>, FALSE, FALSE),
           method("String", "iteratorValue", << "iterator" >>, FALSE, FALSE),
           method("String", "replace", << "old", "new" >>, FALSE, FALSE),
           method("String", "split", << "delimiter" >>, FALSE, FALSE),
           method("String", "startsWith", << "prefix" >>, FALSE, FALSE),
           method("String", "trim", << >>, FALSE, FALSE),
           method("String", "trim", << "chars" >>, FALSE, FALSE),
           method("String", "trimEnd", << >>, FALSE, FALSE),
           method("String", "trimEnd", << "chars" >>, FALSE, FALSE),
           method("String", "trimStart", << >>, FALSE, FALSE),
           method("String", "trimStart", << "chars" >>, FALSE, FALSE),
           method("String", "bytes", << >>, FALSE, FALSE),
           method("String", "codePoints", << >>, FALSE, FALSE),
           method("String", "toString", << >>, FALSE, FALSE) >>,
        << method("String", "fromCodePoint", << "codePoint" >>, TRUE, FALSE),
           method("String", "fromByte", << "byte" >>, TRUE, FALSE) >>)

LIST_CLASS ==
    cls("List",
        << method("List", "[", << "index" >>, FALSE, FALSE),
           method("List", "[]=", << "index", "value" >>, FALSE, FALSE),
           method("List", "add", << "item" >>, FALSE, FALSE),
           method("List", "addAll", << "other" >>, FALSE, FALSE),
           method("List", "clear", << >>, FALSE, FALSE),
           method("List", "count", << >>, FALSE, FALSE),
           method("List", "indexOf", << "element" >>, FALSE, FALSE),
           method("List", "insert", << "index", "item" >>, FALSE, FALSE),
           method("List", "iterate", << "iterator" >>, FALSE, FALSE),
           method("List", "iteratorValue", << "iterator" >>, FALSE, FALSE),
           method("List", "remove", << "value" >>, FALSE, FALSE),
           method("List", "removeAt", << "index" >>, FALSE, FALSE),
           method("List", "sort", << >>, FALSE, FALSE),
           method("List", "sort", << "comparator" >>, FALSE, FALSE),
           method("List", "swap", << "indexA", "indexB" >>, FALSE, FALSE),
           method("List", "+", << "other" >>, FALSE, FALSE),
           method("List", "*", << "count" >>, FALSE, FALSE),
           method("List", "toString", << >>, FALSE, FALSE) >>,
        << method("List", "new", << >>, FALSE, TRUE),
           method("List", "filled", << "size", "element" >>, TRUE, FALSE) >>)

MAP_CLASS ==
    cls("Map",
        << method("Map", "[", << "key" >>, FALSE, FALSE),
           method("Map", "[]=", << "key", "value" >>, FALSE, FALSE),
           method("Map", "clear", << >>, FALSE, FALSE),
           method("Map", "containsKey", << "key" >>, FALSE, FALSE),
           method("Map", "count", << >>, FALSE, FALSE),
           method("Map", "keys", << >>, FALSE, FALSE),
           method("Map", "values", << >>, FALSE, FALSE),
           method("Map", "iterate", << "iterator" >>, FALSE, FALSE),
           method("Map", "remove", << "key" >>, FALSE, FALSE),
           method("Map", "toString", << >>, FALSE, FALSE) >>,
        << method("Map", "new", << >>, FALSE, TRUE) >>)

RANGE_CLASS ==
    cls("Range",
        << method("Range", "from", << >>, FALSE, FALSE),
           method("Range", "to", << >>, FALSE, FALSE),
           method("Range", "min", << >>, FALSE, FALSE),
           method("Range", "max", << >>, FALSE, FALSE),
           method("Range", "isInclusive", << >>, FALSE, FALSE),
           method("Range", "iterate", << "iterator" >>, FALSE, FALSE),
           method("Range", "iteratorValue", << "iterator" >>, FALSE, FALSE),
           method("Range", "toString", << >>, FALSE, FALSE) >>,
        << >>)

FIBER_CLASS ==
    cls("Fiber",
        << method("Fiber", "call", << >>, FALSE, FALSE),
           method("Fiber", "call", << "value" >>, FALSE, FALSE),
           method("Fiber", "error", << >>, FALSE, FALSE),
           method("Fiber", "isDone", << >>, FALSE, FALSE),
           method("Fiber", "transfer", << >>, FALSE, FALSE),
           method("Fiber", "transfer", << "value" >>, FALSE, FALSE),
           method("Fiber", "transferError", << "error" >>, FALSE, FALSE),
           method("Fiber", "try", << >>, FALSE, FALSE),
           method("Fiber", "try", << "value" >>, FALSE, FALSE) >>,
        << method("Fiber", "new", << "fn" >>, FALSE, TRUE),
           method("Fiber", "abort", << "error" >>, TRUE, FALSE),
           method("Fiber", "current", << >>, TRUE, FALSE),
           method("Fiber", "suspend", << >>, TRUE, FALSE),
           method("Fiber", "yield", << >>, TRUE, FALSE),
           method("Fiber", "yield", << "value" >>, TRUE, FALSE) >>)

FN_CLASS ==
    cls("Fn",
        << method("Fn", "arity", << >>, FALSE, FALSE),
           method("Fn", "call", << >>, FALSE, FALSE),
           method("Fn", "call", << "a" >>, FALSE, FALSE),
           method("Fn", "call", << "a", "b" >>, FALSE, FALSE),
           method("Fn", "call", << "a", "b", "c" >>, FALSE, FALSE),
           method("Fn", "call", << "a", "b", "c", "d" >>, FALSE, FALSE),
           method("Fn", "call", << "a", "b", "c", "d", "e" >>, FALSE, FALSE),
           method("Fn", "call", << "a", "b", "c", "d", "e", "f" >>, FALSE, FALSE),
           method("Fn", "call", << "a", "b", "c", "d", "e", "f", "g" >>, FALSE, FALSE),
           method("Fn", "call", << "a", "b", "c", "d", "e", "f", "g", "h" >>, FALSE, FALSE),
           method("Fn", "call", << "a", "b", "c", "d", "e", "f", "g", "h", "i" >>, FALSE, FALSE),
           method("Fn", "call", << "a", "b", "c", "d", "e", "f", "g", "h", "i", "j" >>, FALSE, FALSE),
           method("Fn", "call", << "a", "b", "c", "d", "e", "f", "g", "h", "i", "j", "k" >>, FALSE, FALSE),
           method("Fn", "call", << "a", "b", "c", "d", "e", "f", "g", "h", "i", "j", "k", "l" >>, FALSE, FALSE),
           method("Fn", "call", << "a", "b", "c", "d", "e", "f", "g", "h", "i", "j", "k", "l", "m" >>, FALSE, FALSE),
           method("Fn", "call", << "a", "b", "c", "d", "e", "f", "g", "h", "i", "j", "k", "l", "m", "n" >>, FALSE, FALSE),
           method("Fn", "call", << "a", "b", "c", "d", "e", "f", "g", "h", "i", "j", "k", "l", "m", "n", "o" >>, FALSE, FALSE),
           method("Fn", "call", << "a", "b", "c", "d", "e", "f", "g", "h", "i", "j", "k", "l", "m", "n", "o", "p" >>, FALSE, FALSE),
           method("Fn", "toString", << >>, FALSE, FALSE) >>,
        << method("Fn", "new", << "fn" >>, FALSE, TRUE) >>)

SYSTEM_CLASS ==
    cls("System",
        << >>,
        << method("System", "print", << >>, TRUE, FALSE),
           method("System", "print", << "object" >>, TRUE, FALSE),
           method("System", "printAll", << "sequence" >>, TRUE, FALSE),
           method("System", "write", << "object" >>, TRUE, FALSE),
           method("System", "writeAll", << "sequence" >>, TRUE, FALSE),
           method("System", "clock", << >>, TRUE, FALSE),
           method("System", "gc", << >>, TRUE, FALSE) >>)

MAP_ENTRY_CLASS ==
    cls("MapEntry",
        << method("MapEntry", "key", << >>, FALSE, FALSE),
           method("MapEntry", "value", << >>, FALSE, FALSE),
           method("MapEntry", "toString", << >>, FALSE, FALSE) >>,
        << >>)

RANDOM_CLASS ==
    cls("Random",
        << method("Random", "float", << >>, FALSE, FALSE),
           method("Random", "float", << "end" >>, FALSE, FALSE),
           method("Random", "float", << "start", "end" >>, FALSE, FALSE),
           method("Random", "int", << "end" >>, FALSE, FALSE),
           method("Random", "int", << "start", "end" >>, FALSE, FALSE),
           method("Random", "sample", << "list" >>, FALSE, FALSE),
           method("Random", "sample", << "list", "count" >>, FALSE, FALSE),
           method("Random", "shuffle", << "list" >>, FALSE, FALSE) >>,
        << method("Random", "new", << >>, FALSE, TRUE),
           method("Random", "new", << "seed" >>, FALSE, TRUE) >>)

META_CLASS ==
    cls("Meta",
        << >>,
        << method("Meta", "getModuleVariables", << "module" >>, TRUE, FALSE),
           method("Meta", "eval", << "source" >>, TRUE, FALSE),
           method("Meta", "compileExpression", << "source" >>, TRUE, FALSE),
           method("Meta", "compile", << "source" >>, TRUE, FALSE) >>)

\* A slip: the class of the module random counts as a core class.
CORE_CLASSES_WithRandom ==
    << OBJECT_CLASS, CLASS_CLASS, BOOL_CLASS, NULL_CLASS, NUM_CLASS,
       SEQUENCE_CLASS, STRING_CLASS, LIST_CLASS, MAP_CLASS, RANGE_CLASS,
       FIBER_CLASS, FN_CLASS, SYSTEM_CLASS, MAP_ENTRY_CLASS, RANDOM_CLASS >>

\* Core classes, which every program has without an import.
CORE_CLASSES ==
    << OBJECT_CLASS, CLASS_CLASS, BOOL_CLASS, NULL_CLASS, NUM_CLASS,
       SEQUENCE_CLASS, STRING_CLASS, LIST_CLASS, MAP_CLASS, RANGE_CLASS,
       FIBER_CLASS, FN_CLASS, SYSTEM_CLASS, MAP_ENTRY_CLASS >>

\* The classes of a built-in module, absent for any other module name.
getBuiltinClasses(moduleName) ==
    IF moduleName = "random" THEN Some(<< RANDOM_CLASS >>)
    ELSE IF moduleName = "meta" THEN Some(<< META_CLASS >>)
    ELSE None

\* A slip: no module name counts as built-in.
isBuiltinModule_Never(importPath) == FALSE

\* BUILTIN_MODULES.has(importPath)
isBuiltinModule(importPath) == importPath \in {"meta", "random"}

(***************************************************************************)
(* getDiagnostics with the check for unresolved imports, one action per    *)
(* stretch between its awaits (the fs.stat of anyExists).  The call record *)
(* also keeps what the properties read: the analyzer and stat calls made,  *)
(* whether the call repeats the one before it, and the files, documents    *)
(* and roots that the call saw (`seen`, `steady` while they stayed as they *)
(* were at each of its steps).                                             *)
(***************************************************************************)

\* path.resolve(dir, file) for a relative file name.
JoinPath(dir, file) == dir \o "/" \o file

\* resolveCandidates(currentFile, importRequest): the normalized request
\* joined to the file's directory and to every additional search root, in
\* the insertion order of the Set.
resolveCandidates(currentFile, importRequest) ==
    LET normalized == normalizedImportPath[importRequest]
    IN  PushNew(<< JoinPath(Dirname(currentFile), normalized) >>,
                [i \in 1..Len(additionalSearchRoots) |->
                    JoinPath(additionalSearchRoots[i], normalized)])

\* A slip: open documents are not looked at.
isOpenDocument_Never(fsPath) == FALSE

\* vscode.workspace.textDocuments.some(doc => doc.uri.fsPath === p)
isOpenDocument(fsPath) == fsPath \in DOMAIN textDocuments

\* The warning that getDiagnostics pushes for an import.
unresolvedImport(imp) ==
    [range |-> imp.range,
     message |-> << "Cannot find module", imp.moduleName >>,
     severity |-> "Warning",
     source |-> "wren-analyzer",
     code |-> "unresolved-import"]

\* What a step of the call sees of its surroundings.
Surroundings == << DOMAIN disk, DOMAIN textDocuments, additionalSearchRoots >>

\* The loop over the imports from where the call stands up to its next
\* await or its return: built-in modules are skipped; the candidates of an
\* import are gone through in order, a candidate that is an open document
\* ends the search, another one is statted (the await); an import whose
\* candidates are used up gets its warning.
RECURSIVE runToAwait(_)
runToAwait(call) ==
    IF call.todo = << >> THEN [call EXCEPT !.pc = "done", !.candidates = None]
    ELSE LET imp == Head(call.todo)
         IN  IF call.candidates = None
             THEN IF isBuiltinModule(imp.moduleName)
                  THEN runToAwait([call EXCEPT !.todo = Tail(@)])
                  ELSE runToAwait([call EXCEPT !.candidates =
                                       Some(resolveCandidates(call.fsPath, imp.path))])
             ELSE IF call.candidates[1] = << >>
             THEN runToAwait([call EXCEPT
                                 !.diagnostics = Append(@, unresolvedImport(imp)),
                                 !.todo = Tail(@),
                                 !.candidates = None])
             ELSE IF isOpenDocument(Head(call.candidates[1]))
             THEN runToAwait([call EXCEPT !.todo = Tail(@), !.candidates = None])
             ELSE [call EXCEPT !.pc = "stat"]

\* getDiagnostics(document) up to its first await: the cached diagnostics
\* are copied and the loop over the imports of the cached index starts.
getDiagnosticsCall(fsPath) ==
    /\ diag.pc \in {"idle", "done"}
    /\ IsOpen(fsPath)
    /\ textDocuments[fsPath].languageId = "wren"
    /\ LET r == analyzeAndCache(Document(fsPath))
       IN  /\ documentCache' = r.documentCache
           /\ last' = Returned("query", fsPath, r.analyzerCalls, 0, r.entry)
           /\ diag' = runToAwait(
                  [pc |-> "call", fsPath |-> fsPath,
                   imports |-> r.entry.index.imports,
                   todo |-> r.entry.index.imports,
                   candidates |-> None,
                   diagnostics |-> r.entry.diagnostics,
                   analyzerCalls |-> r.analyzerCalls,
                   statCalls |-> 0,
                   repeated |-> (diag.pc = "done" /\ diag.fsPath = fsPath
                                 /\ r.analyzerCalls = 0),
                   seen |-> Surroundings,
                   steady |-> TRUE])
    /\ UNCHANGED << textDocuments, disk, configuration, externalCache,
                    additionalSearchRoots, enableDiagnostics, load, agg, request >>

\* The fs.stat of anyExists completes: a file ends the search for the
\* import, a failure is caught and the next candidate is tried.
anyExistsStat ==
    /\ diag.pc = "stat"
    /\ LET p == Head(diag.candidates[1])
           counted == [diag EXCEPT !.statCalls = @ + 1,
                                   !.steady = @ /\ (Surroundings = diag.seen)]
       IN  diag' = IF MapHas(disk, p)
                   THEN runToAwait([counted EXCEPT !.todo = Tail(@),
                                                   !.candidates = None])
                   ELSE runToAwait([counted EXCEPT !.candidates = Some(Tail(@[1]))])
    /\ last' = NoCall
    /\ UNCHANGED << textDocuments, disk, configuration, documentCache, externalCache,
                    additionalSearchRoots, enableDiagnostics, load, agg, request >>

(***************************************************************************)
(* Import resolution.  ModuleResolver belongs to the analyzer package; it  *)
(* is modelled from its description: the module name, with the language's  *)
(* extension, is joined to each search path in turn, and the first         *)
(* candidate that is a file resolves the import.                           *)
(***************************************************************************)

\* path.join(dir, moduleName + ".wren")
ModuleFile(dir, moduleName) ==
    IF dir = "/ws" /\ moduleName = "a" THEN "/ws/a.wren"
    ELSE IF dir = "/ws" /\ moduleName = "b" THEN "/ws/b.wren"
    ELSE IF dir = "/ws" /\ moduleName = "c" THEN "/ws/c.wren"
    ELSE "/other.wren"

\* ModuleResolver(searchPaths).resolve(moduleName, fromFile): the first
\* candidate that exists, absent when there is none.
RECURSIVE resolve(_, _, _)
resolve(searchPaths, moduleName, fromFile) ==
    IF searchPaths = << >> THEN None
    ELSE IF MapHas(disk, ModuleFile(Head(searchPaths), moduleName))
         THEN Some(ModuleFile(Head(searchPaths), moduleName))
         ELSE resolve(Tail(searchPaths), moduleName, fromFile)

\* A slip: the three groups of locations are put one after the other.
getSearchPathsForFile_Unchecked(fsPath) ==
    << Dirname(fsPath) >> \o WorkspaceFolders \o additionalSearchRoots

\* getSearchPathsForFile(fsPath)
getSearchPathsForFile(fsPath) ==
    PushNew(PushNew(<< Dirname(fsPath) >>, WorkspaceFolders), additionalSearchRoots)

(***************************************************************************)
(* getWorkspaceAggregate: the merge of the collected entries.              *)
(***************************************************************************)

\* The classes of an entry that pass `visibleNames !== null &&
\* !visibleNames.has(cls.name)`, in order.
visibleClasses(entry) ==
    SelectSeq(entry.classes,
              LAMBDA c : IF entry.visibleNames = None THEN TRUE
                         ELSE c.name \in entry.visibleNames[1])

\* A slip: the entries are gone through from the last to the first.
RECURSIVE mergedClasses_LastFirst(_)
mergedClasses_LastFirst(entries) ==
    IF entries = << >> THEN << >>
    ELSE mergedClasses_LastFirst(Tail(entries)) \o visibleClasses(Head(entries))

\* The classes that the two outer loops go through, in order.
RECURSIVE mergedClasses(_)
mergedClasses(entries) ==
    IF entries = << >> THEN << >>
    ELSE visibleClasses(Head(entries)) \o mergedClasses(Tail(entries))

\* The methods (static or not) of the classes of one name, in the order
\* in which the inner loops push them.
RECURSIVE pushedMethods(_, _)
pushedMethods(classes, static) ==
    IF classes = << >> THEN << >>
    ELSE (IF static THEN Head(classes).staticMethods ELSE Head(classes).methods)
         \o pushedMethods(Tail(classes), static)

\* A Map of overload lists: under each method name the methods of that
\* name, in push order.
overloads(methods) ==
    [n \in {methods[i].name : i \in 1..Len(methods)} |->
        SelectSeq(methods, LAMBDA s : s.name = n)]

\* The aggregate of the entries: a bucket per visible class name, holding
\* the overload lists that the loops of getWorkspaceAggregate build.
mergeEntries(entries) ==
    LET all == mergedClasses(entries)
    IN  [n \in {all[i].name : i \in 1..Len(all)} |->
            LET named == SelectSeq(all, LAMBDA c : c.name = n)
            IN  [name |-> n,
                 methods |-> overloads(pushedMethods(named, FALSE)),
                 staticMethods |-> overloads(pushedMethods(named, TRUE))]]

\* The arrays of the heap, by owner: an array that the running query
\* created, the registry's method array of a built-in class, or the method
\* array of a class symbol of a cached file index.
OwnedByQuery == "query"

OwnedBySymbol(sym) == IF sym.file = "" THEN "registry" ELSE sym.file

\* A slip: the overload list of a name starts as the array that holds the
\* first method of that name.
overloadListFor_Borrowed(sym) == OwnedBySymbol(sym)

\* bucket.methods.get(method.name) ?? []: the list that the methods of one
\* name of a bucket are pushed to is the array created at the first of them.
overloadListFor(sym) == OwnedByQuery

\* The arrays that the loops of getWorkspaceAggregate push to.
mergeWrites(entries) ==
    LET all == mergedClasses(entries)
    IN  UNION { { overloadListFor(c.methods[m]) : m \in DOMAIN c.methods }
                \cup { overloadListFor(c.staticMethods[m]) : m \in DOMAIN c.staticMethods } :
                c \in { all[i] : i \in DOMAIN all } }

\* imp.variables ? new Set(imp.variables) : null
VisibleNames(imp) ==
    IF imp.variables = None THEN None
    ELSE Some({imp.variables[1][i] : i \in 1..Len(imp.variables[1])})

(***************************************************************************)
(* getWorkspaceAggregate and collectWorkspaceEntries, one action per       *)
(* stretch between awaits and per turn of the loops.  An entry of          *)
(* `results` also records the file or module it comes from (`from`, empty  *)
(* for the core classes), which the code does not keep; `resolveCalls`     *)
(* counts the calls of resolver.resolve.                                   *)
(***************************************************************************)

\* A slip: no file counts as visited.
visitedHas_Never(visited, fsPath) == FALSE

\* visited.has(fsPath)
visitedHas(visited, fsPath) == fsPath \in visited

\* A slip: the results do not start with the core classes.
AggStart_NoCore(fsPath) ==
    /\ agg.pc = "idle"
    /\ IsOpen(fsPath)
    /\ textDocuments[fsPath].languageId = "wren"
    /\ LET r == analyzeAndCache(Document(fsPath))
       IN  /\ documentCache' = r.documentCache
           /\ last' = Returned("query", fsPath, r.analyzerCalls, 0, r.entry)
           /\ agg' = [pc |-> "loop", root |-> fsPath,
                      results |-> << >>,
                      visited |-> {},
                      pending |-> << [index |-> r.entry.index,
                                      visibleNames |-> None] >>,
                      current |-> "", todo |-> << >>, classes |-> EmptyMap, written |-> {},
                      resolveCalls |-> 0]
    /\ UNCHANGED << textDocuments, disk, configuration, externalCache,
                    additionalSearchRoots, enableDiagnostics, load >>

\* getWorkspaceAggregate(document) up to the loop of collectWorkspaceEntries:
\* the root index is queried, the core classes are the first result and the
\* root file the first pending entry.
AggStart(fsPath) ==
    /\ agg.pc = "idle"
    /\ IsOpen(fsPath)
    /\ textDocuments[fsPath].languageId = "wren"
    /\ LET r == analyzeAndCache(Document(fsPath))
       IN  /\ documentCache' = r.documentCache
           /\ last' = Returned("query", fsPath, r.analyzerCalls, 0, r.entry)
           /\ agg' = [pc |-> "loop", root |-> fsPath,
                      results |-> << [classes |-> CORE_CLASSES,
                                      visibleNames |-> None, from |-> ""] >>,
                      visited |-> {},
                      pending |-> << [index |-> r.entry.index,
                                      visibleNames |-> None] >>,
                      current |-> "", todo |-> << >>, classes |-> EmptyMap, written |-> {},
                      resolveCalls |-> 0]
    /\ UNCHANGED << textDocuments, disk, configuration, externalCache,
                    additionalSearchRoots, enableDiagnostics, load >>

\* A slip: a popped entry is processed whether or not its file was visited.
AggPop_NoVisitedCheck ==
    /\ agg.pc = "loop"
    /\ agg.pending # << >>
    /\ Len(agg.results) < MaxResults
    /\ LET current == agg.pending[Len(agg.pending)]
           rest == SubSeq(agg.pending, 1, Len(agg.pending) - 1)
           fsPath == current.index.fsPath
       IN  agg' = [agg EXCEPT !.pending = rest,
                              !.visited = @ \cup {fsPath},
                              !.results =
                                  Append(@, [classes |-> current.index.classes,
                                             visibleNames |-> current.visibleNames,
                                             from |-> fsPath]),
                              !.current = fsPath,
                              !.todo = current.index.imports,
                              !.pc = "imports"]
    /\ last' = NoCall
    /\ UNCHANGED << textDocuments, disk, configuration, documentCache, externalCache,
                    additionalSearchRoots, enableDiagnostics, load >>

\* A slip: the pending entries are taken from the front.
AggPop_Fifo ==
    /\ agg.pc = "loop"
    /\ agg.pending # << >>
    /\ Len(agg.results) < MaxResults
    /\ LET current == Head(agg.pending)
           rest == Tail(agg.pending)
           fsPath == current.index.fsPath
       IN  IF visitedHas(agg.visited, fsPath)
           THEN agg' = [agg EXCEPT !.pending = rest]
           ELSE agg' = [agg EXCEPT !.pending = rest,
                                   !.visited = @ \cup {fsPath},
                                   !.results =
                                       Append(@, [classes |-> current.index.classes,
                                                  visibleNames |-> current.visibleNames,
                                                  from |-> fsPath]),
                                   !.current = fsPath,
                                   !.todo = current.index.imports,
                                   !.pc = "imports"]
    /\ last' = NoCall
    /\ UNCHANGED << textDocuments, disk, configuration, documentCache, externalCache,
                    additionalSearchRoots, enableDiagnostics, load >>

\* A turn of the while loop: the last pending entry is popped; a visited
\* file is skipped, another is marked, added to the results, and its
\* imports are gone through.
AggPop ==
    /\ agg.pc = "loop"
    /\ agg.pending # << >>
    /\ Len(agg.results) < MaxResults
    /\ LET current == agg.pending[Len(agg.pending)]
           rest == SubSeq(agg.pending, 1, Len(agg.pending) - 1)
           fsPath == current.index.fsPath
       IN  IF visitedHas(agg.visited, fsPath)
           THEN agg' = [agg EXCEPT !.pending = rest]
           ELSE agg' = [agg EXCEPT !.pending = rest,
                                   !.visited = @ \cup {fsPath},
                                   !.results =
                                       Append(@, [classes |-> current.index.classes,
                                                  visibleNames |-> current.visibleNames,
                                                  from |-> fsPath]),
                                   !.current = fsPath,
                                   !.todo = current.index.imports,
                                   !.pc = "imports"]
    /\ last' = NoCall
    /\ UNCHANGED << textDocuments, disk, configuration, documentCache, externalCache,
                    additionalSearchRoots, enableDiagnostics, load >>

\* A slip: a load that returns no index ends the loop over the imports.
AggLoaded_StopOnFailure(resolved) ==
    agg' = [agg EXCEPT
               !.resolveCalls = @ + resolved,
               !.pending =
                   IF last'.entry # None
                   THEN Append(@, [index |-> last'.entry[1].index,
                                   visibleNames |-> VisibleNames(Head(agg.todo))])
                   ELSE @,
               !.todo = IF last'.entry # None THEN Tail(@) ELSE << >>,
               !.pc = "imports"]

\* The loadIndex call of the import at hand has completed: an index is
\* pushed with the import's visible names, and the next import is at hand.
AggLoaded(resolved) ==
    agg' = [agg EXCEPT
               !.resolveCalls = @ + resolved,
               !.pending =
                   IF last'.entry # None
                   THEN Append(@, [index |-> last'.entry[1].index,
                                   visibleNames |-> VisibleNames(Head(agg.todo))])
                   ELSE @,
               !.todo = Tail(@),
               !.pc = "imports"]

\* A turn of the loop over the imports of the current file.
AggImport ==
    /\ agg.pc = "imports"
    /\ IF agg.todo = << >>
       THEN /\ agg' = [agg EXCEPT !.pc = "loop"]
            /\ last' = NoCall
            /\ UNCHANGED << textDocuments, disk, configuration, documentCache,
                            externalCache, additionalSearchRoots,
                            enableDiagnostics, load >>
       ELSE LET imp == Head(agg.todo)
                builtinClasses == getBuiltinClasses(imp.moduleName)
                resolvedPath ==
                    resolve(getSearchPathsForFile(agg.current), imp.moduleName,
                            agg.current)
            IN  IF isBuiltinModule(imp.moduleName)
                THEN /\ agg' = [agg EXCEPT
                                   !.results =
                                       IF builtinClasses # None
                                       THEN Append(@, [classes |-> builtinClasses[1],
                                                       visibleNames |-> VisibleNames(imp),
                                                       from |-> imp.moduleName])
                                       ELSE @,
                                   !.todo = Tail(@)]
                     /\ last' = NoCall
                     /\ UNCHANGED << textDocuments, disk, configuration, documentCache,
                                     externalCache, additionalSearchRoots,
                                     enableDiagnostics, load >>
                ELSE IF resolvedPath # None /\ ~visitedHas(agg.visited, resolvedPath[1])
                THEN /\ LoadIndexCall(resolvedPath[1])
                     /\ IF load'.pc = "idle"
                        THEN AggLoaded(1)
                        ELSE agg' = [agg EXCEPT !.pc = "loading",
                                                !.resolveCalls = @ + 1]
                ELSE /\ agg' = [agg EXCEPT !.todo = Tail(@),
                                           !.resolveCalls = @ + 1]
                     /\ last' = NoCall
                     /\ UNCHANGED << textDocuments, disk, configuration, documentCache,
                                     externalCache, additionalSearchRoots,
                                     enableDiagnostics, load >>

\* The stat of the awaited loadIndex completes.
AggLoadStat ==
    /\ agg.pc = "loading"
    /\ LoadIndexStat
    /\ IF load'.pc = "idle" THEN AggLoaded(0) ELSE UNCHANGED agg

\* The read and the analysis of the awaited loadIndex complete.
AggLoadOpen(outcome) ==
    /\ agg.pc = "loading"
    /\ LoadIndexOpen(outcome)
    /\ AggLoaded(0)

\* The loop has ended: the entries are merged and the aggregate returned.
AggFinish ==
    /\ agg.pc = "loop"
    /\ agg.pending = << >>
    /\ agg' = [agg EXCEPT !.pc = "done",
                          !.classes = mergeEntries(agg.results),
                          !.written = mergeWrites(agg.results)]
    /\ last' = NoCall
    /\ UNCHANGED << textDocuments, disk, configuration, documentCache, externalCache,
                    additionalSearchRoots, enableDiagnostics, load >>

(***************************************************************************)
(* One aggregate over a workspace of three files that import each other:   *)
(* a.wren and b.wren are open, c.wren is on disk only.                     *)
(***************************************************************************)

ClassesC ==
    << [name |-> "Baz",
        methods |-> << MethodDecl("qux", << >>, FALSE, FALSE),
                       MethodDecl("zap", << >>, TRUE, FALSE) >>] >>

ClassesOf(fsPath) ==
    IF fsPath = "/ws/a.wren" THEN ClassesA
    ELSE IF fsPath = "/ws/b.wren" THEN ClassesB
    ELSE ClassesC

\* The import statements of the root file.
RootImportStmts ==
    { ImportStmt("a", None), ImportStmt("b", None),
      ImportStmt("b", Some(<< "Baz" >>)), ImportStmt("c", None),
      ImportStmt("random", None), ImportStmt("nowhere", None) }

\* The import lists of the root file, of b.wren and of c.wren.
RootImports == UNION {[1..n -> RootImportStmts] : n \in 0..MaxImports}

ImportsOfB ==
    { << >>, << ImportStmt("a", None) >>, << ImportStmt("b", None) >>,
      << ImportStmt("c", None) >> }

ImportsOfC ==
    { << >>, << ImportStmt("a", None) >>, << ImportStmt("b", None) >>,
      << ImportStmt("random", Some(<< "Random" >>)) >>,
      << ImportStmt("meta", Some(<< "Random" >>)) >> }

\* The workspace in which the three files have the given import lists, and
\* the service as constructed.
Workspace(ia, ib, ic) ==
    LET imports == [f \in Paths |->
                       IF f = "/ws/a.wren" THEN ia
                       ELSE IF f = "/ws/b.wren" THEN ib ELSE ic]
        text == [f \in Paths |->
                    [classes |-> ClassesOf(f), imports |-> imports[f],
                     rawDiagnostics |-> IF f = "/ws/b.wren"
                                        THEN << UnusedVariable >> ELSE << >>]]
    IN  /\ disk = [f \in Paths |-> [mtime |-> 1, text |-> text[f]]]
        /\ textDocuments =
               [f \in EditorFiles |->
                   [version |-> 1, text |-> text[f], languageId |-> "wren"]]
        /\ configuration = [additionalModuleDirectories |-> << "", "lib" >>,
                            enableDiagnostics |-> TRUE]
        /\ documentCache = EmptyMap
        /\ externalCache = EmptyMap
        /\ additionalSearchRoots =
               refreshConfiguration(configuration).additionalSearchRoots
        /\ enableDiagnostics = refreshConfiguration(configuration).enableDiagnostics
        /\ load = Idle
        /\ last = NoCall
        /\ agg = NoAggregate
        /\ diag = NoDiagnosticsCall
        /\ request = NoRequest

InitAgg ==
    \E ia \in RootImports, ib \in ImportsOfB, ic \in ImportsOfC : Workspace(ia, ib, ic)

\* The import graphs over the three files in which the root has at most
\* two imports and the other files at most one: among them a file that
\* imports itself, two files that import each other, and the cycle through
\* all three.
FileImportStmts ==
    { ImportStmt("a", None), ImportStmt("b", None), ImportStmt("c", None) }

OneImport == { << >> } \cup { << i >> : i \in FileImportStmts }

TwoImports ==
    OneImport \cup { << i, j >> : i \in FileImportStmts, j \in FileImportStmts }

InitTraverse ==
    \E ia \in TwoImports, ib \in OneImport, ic \in OneImport : Workspace(ia, ib, ic)

NextAgg ==
    \/ AggStart(WorkFile) /\ UNCHANGED << diag, request >>
    \/ AggPop /\ UNCHANGED << diag, request >>
    \/ AggImport /\ UNCHANGED << diag, request >>
    \/ AggLoadStat /\ UNCHANGED << diag, request >>
    \/ \E outcome \in Outcomes : AggLoadOpen(outcome) /\ UNCHANGED << diag, request >>
    \/ AggFinish /\ UNCHANGED << diag, request >>

SpecAgg == InitAgg /\ [][NextAgg]_vars

\* The traversal of the import graphs, in which every pending step of the
\* aggregate is eventually taken: the awaited stat and read complete.
SpecTraverse == InitTraverse /\ [][NextAgg]_vars /\ WF_vars(NextAgg)

\* The same for the workspaces of one aggregate, with their imports of
\* built-in modules and of a module that no file provides.
SpecContinue == InitAgg /\ [][NextAgg]_vars /\ WF_vars(NextAgg)

(***************************************************************************)
(* getDiagnostics on the open document b.wren while the file a.wren comes  *)
(* and goes on disk and in the editor, and the search roots change.        *)
(***************************************************************************)

\* The import statements of b.wren: a file that comes and goes, a module
\* that is nowhere, a built-in module.
DiagImportStmts ==
    { ImportStmt("a", None), ImportStmt("nowhere", None), ImportStmt("random", None) }

DiagImports == UNION {[1..n -> DiagImportStmts] : n \in 0..MaxImports}

\* The document whose diagnostics are asked for.
DiagFile == "/ws/b.wren"

InitDiag == \E ib \in DiagImports : Workspace(<< >>, ib, << >>)

NextDiag ==
    \/ getDiagnosticsCall(DiagFile)
    \/ anyExistsStat
    \/ OnDidOpenTextDocument(WorkFile, "wren")
    \/ OnDidCloseTextDocument(WorkFile)
    \/ DiskWrite(WorkFile, 1)
    \/ DiskDelete(WorkFile)
    \/ \E cfg \in Settings :
           /\ cfg.enableDiagnostics = configuration.enableDiagnostics
           /\ OnDidChangeConfiguration(cfg, Some([affectsDirectories |-> TRUE,
                                                  affectsDiagnostics |-> FALSE]))

SpecDiag == InitDiag /\ [][NextDiag]_vars

(***************************************************************************)
(* Properties of the Document Cache.                                       *)
(***************************************************************************)

\* C1: a query on an open document that finds an entry under the document's
\* path whose index version is the document's version returns that entry
\* and calls no analyzer, and the cache stays as it is; a query that finds
\* no entry, or one of another version, calls the analyzer once, stores the
\* result under the path in place of any old entry, and returns it.
C1_QueryHitOrAnalyzeOnce ==
    [][last'.op = "query" =>
          LET p == last'.path
              version == textDocuments'[p].version
              current == /\ MapHas(documentCache, p)
                         /\ documentCache[p].index.version = version
          IN  IF current
              THEN /\ last'.analyzerCalls = 0
                   /\ last'.entry = Some(documentCache[p])
                   /\ documentCache' = documentCache
              ELSE /\ last'.analyzerCalls = 1
                   /\ last'.entry # None
                   /\ last'.entry[1].index.fsPath = p
                   /\ last'.entry[1].index.version = version
                   /\ Len(last'.entry[1].index.classes)
                          = Len(textDocuments'[p].text.classes)
                   /\ documentCache' = MapSet(documentCache, p, last'.entry[1])]_vars

\* A query on a document at its second version has returned the cached
\* entry without an analyzer call.
C1_Witness ==
    /\ last.op = "query"
    /\ last.analyzerCalls = 0
    /\ textDocuments[last.path].version = 2
    /\ last.entry = Some(documentCache[last.path])

\* C2: every index that a query, or a loadIndex call handed to the Document
\* Cache, returns for an open document has the version the document has at
\* that time.
C2_ServedVersionIsCurrent ==
    (last.op = "query" \/ (last.op = "loadIndex" /\ last.statCalls = 0)) =>
        /\ IsOpen(last.path)
        /\ last.entry # None
        /\ last.entry[1].index.version = textDocuments[last.path].version

\* A document that was edited without an invalidation (it is not a wren
\* document) has been served an index of its second version.
C2_Witness ==
    /\ last.op = "loadIndex"
    /\ last.statCalls = 0
    /\ last.analyzerCalls = 1
    /\ textDocuments[last.path].languageId = "plaintext"
    /\ textDocuments[last.path].version = 2
    /\ last.entry[1].index.version = 2

\* C3: invalidateDocument removes the entry of the document's path, current
\* or not, analyses nothing, and leaves the other entries of the Document
\* Cache and the External File Cache as they are; a query on that document
\* in the next step analyses it.
C3_InvalidateDocument ==
    [][/\ last'.op = "invalidateDocument" =>
             /\ ~MapHas(documentCache', last'.path)
             /\ DOMAIN documentCache' = (DOMAIN documentCache) \ {last'.path}
             /\ \A q \in DOMAIN documentCache' : documentCache'[q] = documentCache[q]
             /\ externalCache' = externalCache
             /\ last'.analyzerCalls = 0
       /\ (/\ last.op = "invalidateDocument"
           /\ last'.op \in {"query", "loadIndex"}
           /\ last'.statCalls = 0
           /\ last'.path = last.path) => last'.analyzerCalls = 1]_vars

\* invalidateDocument has removed the entry of a document whose version did
\* not change, while the entry of another path and an entry of the External
\* File Cache stayed.
C3_Witness ==
    /\ last.op = "invalidateDocument"
    /\ last.removed = 1
    /\ textDocuments[last.path].version = 1
    /\ documentCache # EmptyMap
    /\ externalCache # EmptyMap

\* C4: after evictPath(p) neither cache has an entry for p, and the entries
\* of all other paths in both caches are as before.
C4_EvictPath ==
    [][last'.op = "evictPath" =>
          /\ ~MapHas(documentCache', last'.path)
          /\ ~MapHas(externalCache', last'.path)
          /\ DOMAIN documentCache' = (DOMAIN documentCache) \ {last'.path}
          /\ DOMAIN externalCache' = (DOMAIN externalCache) \ {last'.path}
          /\ \A q \in DOMAIN documentCache' : documentCache'[q] = documentCache[q]
          /\ \A q \in DOMAIN externalCache' : externalCache'[q] = externalCache[q]]_vars

\* evictPath has removed the path's entries from both caches, and both
\* caches still hold the entry of another path.
C4_Witness ==
    /\ last.op = "evictPath"
    /\ last.removed = 2
    /\ documentCache # EmptyMap
    /\ externalCache # EmptyMap

(***************************************************************************)
(* Properties of loadIndex and of the External File Cache.                 *)
(***************************************************************************)

\* C5: a loadIndex call made while a document is open at the path returns
\* in the same step the Document Cache's entry for the document; it issues
\* no stat and leaves the External File Cache as it is, whether or not that
\* cache has an entry for the path.
C5_OpenDocumentWins ==
    [][/\ (load.pc = "idle" /\ load'.pc = "stat") => ~IsOpen(load'.path)
       /\ (load.pc = "idle" /\ last'.op = "loadIndex") =>
             /\ IsOpen(last'.path)
             /\ last'.statCalls = 0
             /\ load' = Idle
             /\ externalCache' = externalCache
             /\ last'.entry = Some(documentCache'[last'.path])]_vars

\* loadIndex has returned the Document Cache's index of an open document
\* while the External File Cache holds another analysis for the path.
C5_Witness ==
    /\ last.op = "loadIndex"
    /\ last.statCalls = 0
    /\ MapHas(externalCache, last.path)
    /\ last.entry[1] # externalCache[last.path].analysis

\* C6: when the stat of a path with no open document succeeds, loadIndex
\* returns the cached analysis, with no analyzer call, exactly if the
\* External File Cache has an entry whose mtime is the file's mtime;
\* otherwise it goes on to read the file, and an analysis that succeeds is
\* stored with the mtime the stat gave and returned.
C6_MtimeDecides ==
    [][/\ (load.pc = "stat" /\ load' # load /\ MapHas(disk, load.path)) =>
             LET p == load.path
                 hit == /\ MapHas(externalCache, p)
                        /\ externalCache[p].mtime = disk[p].mtime
             IN  IF hit
                 THEN /\ last' = Returned("loadIndex", p, 0, 1, externalCache[p].analysis)
                      /\ externalCache' = externalCache
                      /\ load' = Idle
                 ELSE /\ last'.op = "none"
                      /\ load' = [pc |-> "open", path |-> p, mtime |-> disk[p].mtime]
       /\ (load.pc = "open" /\ last'.op = "loadIndex" /\ last'.failed = "") =>
             /\ last'.path = load.path
             /\ last'.analyzerCalls = 1
             /\ last'.statCalls = 1
             /\ last'.entry # None
             /\ last'.entry[1].index.fsPath = load.path
             /\ externalCache' =
                    MapSet(externalCache, load.path,
                           [analysis |-> last'.entry[1], mtime |-> load.mtime])]_vars

\* loadIndex has returned, without analysis, an entry stored for the second
\* mtime of a file.
C6_Witness ==
    /\ last.op = "loadIndex"
    /\ last.statCalls = 1
    /\ last.analyzerCalls = 0
    /\ last.entry # None
    /\ externalCache[last.path].mtime = 2
    /\ disk[last.path].mtime = 2

\* C7: a loadIndex call in which the stat, the read or the analysis fails
\* returns no index, ends the call (no second stat, no second analysis) and
\* leaves both caches as they are; and a stat of a missing file fails.
C7_FailureIsNoIndex ==
    [][/\ last'.failed # "" =>
             /\ last'.op = "loadIndex"
             /\ last'.entry = None
             /\ last'.statCalls = 1
             /\ last'.analyzerCalls <= 1
             /\ load' = Idle
             /\ documentCache' = documentCache
             /\ externalCache' = externalCache
       /\ (load.pc = "stat" /\ load' # load /\ ~MapHas(disk, load.path)) =>
             /\ last'.failed = "stat"
             /\ last'.path = load.path
       /\ (load.pc = "open" /\ load' # load /\ ~MapHas(disk, load.path)) =>
             /\ last'.failed = "read"
             /\ last'.path = load.path
       /\ (load.pc = "open" /\ load' # load) =>
             (last'.op = "loadIndex" /\ (last'.failed = "" <=> last'.entry # None))]_vars

\* The analysis of a file has failed while the External File Cache holds an
\* entry for it of an older mtime: the entry stayed.
C7_Witness ==
    /\ last.op = "loadIndex"
    /\ last.failed = "analysis"
    /\ MapHas(externalCache, last.path)
    /\ MapHas(disk, last.path)
    /\ externalCache[last.path].mtime # disk[last.path].mtime

\* The search roots of settings `cfg`, as a set: the absolute entries, and
\* the relative entries resolved against each workspace folder.
RootsOf(cfg) ==
    LET userPaths == cfg.additionalModuleDirectories
        entries == {userPaths[i] : i \in 1..Len(userPaths)}
    IN  {e \in entries : ~IsBlank(e) /\ IsAbsolute(e)}
        \cup {PathResolve(WorkspaceFolders[i], e) :
                 i \in 1..Len(WorkspaceFolders),
                 e \in {x \in entries : ~IsBlank(x) /\ ~IsAbsolute(x)}}

\* C8: after handleConfigurationChange with no event, or with an event that
\* affects the additional module directories, the External File Cache is
\* empty and the stored roots are the roots of the new settings, each once.
C8_DirectoriesChangeClears ==
    [][last'.op = "handleConfigurationChange(directories)" =>
          /\ externalCache' = EmptyMap
          /\ {additionalSearchRoots'[i] : i \in 1..Len(additionalSearchRoots')}
                 = RootsOf(configuration')
          /\ Len(additionalSearchRoots') = Cardinality(RootsOf(configuration'))
          /\ enableDiagnostics' = configuration'.enableDiagnostics]_vars

\* A change of the directories has emptied an External File Cache that had
\* entries, and the roots are those of the new settings.
C8_Witness ==
    /\ last.op = "handleConfigurationChange(directories)"
    /\ last.removed > 0
    /\ externalCache = EmptyMap
    /\ additionalSearchRoots = << "/ws/lib", "/lib" >>

(***************************************************************************)
(* Properties of the traversal.                                            *)
(***************************************************************************)

\* C9: the traversal ends, whatever the import graph: a file that imports
\* itself, files that import each other, longer cycles.
C9_TraversalTerminates == <>(agg.pc = "done")

\* A traversal has ended in a graph where the root imports itself and
\* a -> b -> c -> a is a cycle.
C9_Witness ==
    /\ agg.pc = "done"
    /\ agg.visited = Paths
    /\ textDocuments["/ws/a.wren"].text.imports
           = << ImportStmt("a", None), ImportStmt("b", None) >>
    /\ textDocuments["/ws/b.wren"].text.imports = << ImportStmt("c", None) >>
    /\ disk["/ws/c.wren"].text.imports = << ImportStmt("a", None) >>

\* The overload list, static or not, in which a method symbol would be:
\* the one of its name in the bucket of its class.
OverloadList(classes, sym, static) ==
    IF ~MapHas(classes, sym.className) THEN << >>
    ELSE LET bucket == classes[sym.className]
             lists == IF static THEN bucket.staticMethods ELSE bucket.methods
         IN  IF MapHas(lists, sym.name) THEN lists[sym.name] ELSE << >>

\* The number of times a method symbol is in the aggregate, in either list.
Occurrences(classes, sym) ==
    Cardinality({i \in 1..Len(OverloadList(classes, sym, TRUE)) :
                    OverloadList(classes, sym, TRUE)[i] = sym})
    + Cardinality({i \in 1..Len(OverloadList(classes, sym, FALSE)) :
                      OverloadList(classes, sym, FALSE)[i] = sym})

\* The method symbols of a class symbol.
SymbolsOf(c) ==
    {c.methods[i] : i \in 1..Len(c.methods)}
    \cup {c.staticMethods[i] : i \in 1..Len(c.staticMethods)}

\* The collected entries that come from workspace files.
FileEntries == {i \in 1..Len(agg.results) : agg.results[i].from \in Paths}

\* C10 (as amended): in the aggregate returned, every file that the
\* traversal visited has one collected entry, however many imports lead to
\* it; a method of a class that the entry's visible names admit is once in
\* the overload list of its class bucket, and a method of a class that they
\* hide is not in it.
C10_VisitedFileMergedOnce ==
    agg.pc = "done" =>
        /\ \A p \in agg.visited :
               Cardinality({i \in FileEntries : agg.results[i].from = p}) = 1
        /\ \A i \in FileEntries :
               /\ agg.results[i].from \in agg.visited
               /\ \A k \in 1..Len(agg.results[i].classes) :
                      LET c == agg.results[i].classes[k]
                          shown == \/ agg.results[i].visibleNames = None
                                   \/ c.name \in agg.results[i].visibleNames[1]
                      IN  \A sym \in SymbolsOf(c) :
                              Occurrences(agg.classes, sym) = IF shown THEN 1 ELSE 0

\* b.wren, which imports the root, is imported twice by the root, the
\* second time for Baz only: it has been visited and the traversal ended.
C10_Witness ==
    /\ agg.pc = "done"
    /\ "/ws/b.wren" \in agg.visited
    /\ textDocuments["/ws/a.wren"].text.imports
           = << ImportStmt("b", None), ImportStmt("b", Some(<< "Baz" >>)) >>
    /\ textDocuments["/ws/b.wren"].text.imports = << ImportStmt("a", None) >>

\* C10 (as stated): every method that a visited file declares is exactly
\* once in the overload list of its class bucket.
C10_EveryMethodExactlyOnce ==
    agg.pc = "done" =>
        \A i \in FileEntries :
            \A k \in 1..Len(agg.results[i].classes) :
                \A sym \in SymbolsOf(agg.results[i].classes[k]) :
                    Occurrences(agg.classes, sym) = 1

(***************************************************************************)
(* Properties of the aggregate of one root file.                           *)
(***************************************************************************)

\* The names of the classes that CORE_CLASSES lists.
CoreClassNames ==
    { "Object", "Class", "Bool", "Null", "Num", "Sequence", "String", "List",
      "Map", "Range", "Fiber", "Fn", "System", "MapEntry" }

\* The names of the classes of the optional built-in modules.
ModuleClassNames == { "Random", "Meta" }

\* The import statements and the class names of the root document.
RootImportsOf(fsPath) == textDocuments[fsPath].text.imports

RootClassNames(fsPath) ==
    { textDocuments[fsPath].text.classes[i].name :
          i \in 1..Len(textDocuments[fsPath].text.classes) }

\* The method symbols of all overload lists of all buckets of an aggregate.
AggregateSymbols(classes) ==
    UNION { UNION { { classes[n].methods[k][i] :
                        i \in 1..Len(classes[n].methods[k]) } :
                    k \in DOMAIN classes[n].methods }
            \cup
            UNION { { classes[n].staticMethods[k][i] :
                        i \in 1..Len(classes[n].staticMethods[k]) } :
                    k \in DOMAIN classes[n].staticMethods } :
            n \in DOMAIN classes }

\* C11: the aggregate of a root file without import statements has a bucket
\* for exactly the core built-in classes and the classes the root file
\* declares: none for Random or Meta, and every method in it is a registry
\* method of a core class or a method declared in the root file.
C11_NoImportAggregate ==
    (agg.pc = "done" /\ RootImportsOf(agg.root) = << >>) =>
        /\ DOMAIN agg.classes = CoreClassNames \cup RootClassNames(agg.root)
        /\ DOMAIN agg.classes \cap ModuleClassNames = {}
        /\ \A sym \in AggregateSymbols(agg.classes) :
              \/ sym.file = agg.root
              \/ sym.file = "" /\ sym.className \in CoreClassNames

\* An aggregate of a root file without imports has been built, and holds the
\* root's class Foo with its constructor and its method.
C11_Witness ==
    /\ agg.pc = "done"
    /\ RootImportsOf(agg.root) = << >>
    /\ "Foo" \in DOMAIN agg.classes
    /\ "Num" \in DOMAIN agg.classes
    /\ \E sym \in AggregateSymbols(agg.classes) : sym.file = agg.root

\* The text of a file as loadIndex reads it: the open document's, else the
\* disk file's.
TextOf(fsPath) ==
    IF IsOpen(fsPath) THEN textDocuments[fsPath].text ELSE disk[fsPath].text

\* The class symbols that the analysis of a file yields.
ClassSymbolsOf(fsPath) ==
    [i \in 1..Len(TextOf(fsPath).classes) |->
        buildClassSymbol(fsPath, TextOf(fsPath).classes[i])]

\* A class symbol is in the aggregate: its name has a bucket, and the
\* bucket's overload lists hold each of its methods.
ClassInAggregate(classes, c) ==
    /\ c.name \in DOMAIN classes
    /\ \A sym \in SymbolsOf(c) : Occurrences(classes, sym) >= 1

\* No method of a class symbol is in the aggregate.
ClassHidden(classes, c) ==
    \A sym \in SymbolsOf(c) : Occurrences(classes, sym) = 0

\* The file an import statement of a file resolves to, when it was loaded
\* and collected during the traversal.
LoadedTarget(fsPath, imp) ==
    LET p == resolve(getSearchPathsForFile(fsPath), imp.moduleName, fsPath)
    IN  IF ~isBuiltinModule(imp.moduleName) /\ p # None /\ p[1] \in agg.visited
        THEN p ELSE None

\* An entry collected with a `for` list puts no class that the list does
\* not name into the aggregate.
ForListHidesUnnamed ==
    \A i \in 1..Len(agg.results) :
        agg.results[i].visibleNames # None =>
            \A k \in 1..Len(agg.results[i].classes) :
                agg.results[i].classes[k].name \notin agg.results[i].visibleNames[1]
                    => ClassHidden(agg.classes, agg.results[i].classes[k])

\* C12: for every import statement of a visited file whose module was
\* loaded: with a `for` list, the classes that the list does not name are
\* not put into the aggregate by the entry of that import; without a `for`
\* list, every class that the module declares is in the aggregate.
C12_ForListDecidesVisibility ==
    agg.pc = "done" =>
        /\ ForListHidesUnnamed
        /\ \A f \in agg.visited :
              \A i \in 1..Len(TextOf(f).imports) :
                  LET imp == TextOf(f).imports[i]
                      target == LoadedTarget(f, imp)
                  IN  (target # None /\ imp.variables = None) =>
                          \A k \in 1..Len(ClassSymbolsOf(target[1])) :
                              ClassInAggregate(agg.classes, ClassSymbolsOf(target[1])[k])

\* The root imports b.wren in full and then again for Baz alone, b.wren was
\* collected, and its class Solo has no bucket in the finished aggregate.
C12_Witness ==
    /\ agg.pc = "done"
    /\ RootImportsOf(agg.root) =
           << ImportStmt("b", None), ImportStmt("b", Some(<< "Baz" >>)) >>
    /\ "/ws/b.wren" \in agg.visited
    /\ "Solo" \notin DOMAIN agg.classes

\* The names of the built-in modules and the registry classes of each.
BuiltinModuleNames == { "random", "meta" }

RegistryClasses(moduleName) ==
    IF moduleName = "random" THEN << RANDOM_CLASS >> ELSE << META_CLASS >>

\* The import statements of the visited files that name a module.
ImportsOfModule(moduleName) ==
    UNION { { TextOf(f).imports[i] : i \in 1..Len(TextOf(f).imports) } : f \in agg.visited }
        \cap [moduleName : {moduleName}, variables : {None} \cup {Some(<< "Random" >>)}]

\* An import statement exposes a class name.
Exposes(imp, className) ==
    \/ imp.variables = None
    \/ \E i \in 1..Len(imp.variables[1]) : imp.variables[1][i] = className

\* C13: the step for an import of a built-in module calls neither the
\* resolver nor loadIndex (no stat, no read, both caches and the pending
\* list as they were) and appends the module's registry classes with the
\* import's visible names; in the finished aggregate a registry class of a
\* module is present with all its methods when an import of the module in a
\* visited file exposes it, and has no bucket otherwise, in particular when
\* no visited file imports the module.
C13_BuiltinModuleImport ==
    /\ [][ ( /\ agg.pc = "imports"
             /\ agg.todo # << >>
             /\ Head(agg.todo).moduleName \in BuiltinModuleNames )
           => /\ agg'.resolveCalls = agg.resolveCalls
              /\ load' = load
              /\ last' = NoCall
              /\ documentCache' = documentCache
              /\ externalCache' = externalCache
              /\ agg'.pending = agg.pending
              /\ agg'.results =
                     Append(agg.results,
                            [classes |-> RegistryClasses(Head(agg.todo).moduleName),
                             visibleNames |-> VisibleNames(Head(agg.todo)),
                             from |-> Head(agg.todo).moduleName]) ]_vars
    /\ [] ( agg.pc = "done" =>
              \A mod \in BuiltinModuleNames :
                  \A k \in 1..Len(RegistryClasses(mod)) :
                      LET c == RegistryClasses(mod)[k]
                      IN  IF \E imp \in ImportsOfModule(mod) : Exposes(imp, c.name)
                          THEN ClassInAggregate(agg.classes, c)
                          ELSE c.name \notin DOMAIN agg.classes )

\* An aggregate is finished in which c.wren was visited and imports random
\* for Random, and the class Random is there with its registry methods.
C13_Witness ==
    /\ agg.pc = "done"
    /\ "/ws/c.wren" \in agg.visited
    /\ TextOf("/ws/c.wren").imports = << ImportStmt("random", Some(<< "Random" >>)) >>
    /\ "Random" \in DOMAIN agg.classes
    /\ "Meta" \notin DOMAIN agg.classes
    /\ agg.resolveCalls >= 1

\* C14: every finished aggregate has a bucket for each of the 14 core
\* classes that holds every registry method of the class, whatever the
\* import graph is and whichever imports did not resolve or load.
C14_CoreClassesAlways ==
    agg.pc = "done" =>
        /\ CoreClassNames \subseteq DOMAIN agg.classes
        /\ Cardinality(CoreClassNames) = 14
        /\ \A k \in 1..Len(CORE_CLASSES) :
              /\ CORE_CLASSES[k].name \in CoreClassNames
              /\ ClassInAggregate(agg.classes, CORE_CLASSES[k])

\* An aggregate is finished whose root imports a module that does not
\* resolve and c.wren, whose load failed (it was not visited); the core
\* class Num is there with its registry methods.
C14_Witness ==
    /\ agg.pc = "done"
    /\ RootImportsOf(agg.root) = << ImportStmt("nowhere", None), ImportStmt("c", None) >>
    /\ "/ws/c.wren" \notin agg.visited
    /\ ClassInAggregate(agg.classes, NUM_CLASS)

(***************************************************************************)
(* Properties of getDiagnostics.                                           *)
(***************************************************************************)

\* The number of unresolved-import warnings of a diagnostics list whose
\* range is the path token of an import.
Warnings(diagnostics, imp) ==
    Cardinality({k \in 1..Len(diagnostics) :
                    /\ diagnostics[k].code = "unresolved-import"
                    /\ diagnostics[k].range = imp.range})

\* A candidate of an import of a file is there, as an open document or on disk.
CandidateExists(fsPath, imp) ==
    \E k \in 1..Len(resolveCandidates(fsPath, imp.path)) :
        \/ resolveCandidates(fsPath, imp.path)[k] \in DOMAIN textDocuments
        \/ resolveCandidates(fsPath, imp.path)[k] \in DOMAIN disk

\* The normalized paths under which a file of the workspace can be found.
WorkspaceFileNames == {"a.wren", "b.wren", "c.wren"}

Coalesce(keyword, otherwise) == IF keyword # None THEN keyword[1].start ELSE otherwise

\* /^[A-Z]/.test(text), over the identifiers of the modelled programs.
UppercaseNames == {"Vec2", "Foo", "Bar", "Num", "String", "Range", "Random", "Baz", "Solo"}

StartsUppercase(text) == text \in UppercaseNames

\* Extract the class name from a receiver expression (for Foo.new() patterns).
getReceiverClassName(expr) ==
    IF expr.kind = "CallExpr"
        THEN IF expr.receiver = None /\ expr.arguments = None /\ StartsUppercase(expr.name.text)
                THEN Some(expr.name.text)
                ELSE None
        ELSE None

RECURSIVE inferExprType(_)

\* Infer the type of an expression from its AST node kind.
inferExprType(expr) ==
    CASE expr.kind = "NumExpr" -> Some("Num")
      [] expr.kind \in {"StringExpr", "InterpolationExpr"} -> Some("String")
      [] expr.kind = "BoolExpr" -> Some("Bool")
      [] expr.kind = "NullExpr" -> Some("Null")
      [] expr.kind = "ListExpr" -> Some("List")
      [] expr.kind = "MapExpr" -> Some("Map")
      [] expr.kind = "CallExpr" ->
            IF expr.name.text = "new" /\ expr.receiver # None
                THEN getReceiverClassName(expr.receiver[1])
                ELSE None
      [] expr.kind = "GroupingExpr" -> inferExprType(expr.expression)
      [] OTHER -> None

\* resolveVarType with the initializer consulted first.
resolveVarType_InitializerFirst(stmt) ==
    IF stmt.initializer # None /\ inferExprType(stmt.initializer[1]) # None
        THEN inferExprType(stmt.initializer[1])
        ELSE IF stmt.typeAnnotation # None
                THEN Some(stmt.typeAnnotation[1].name.text)
                ELSE None

\* resolveVarType with a best guess for an initializer of unknown type.
resolveVarType_BestGuess(stmt) ==
    IF stmt.typeAnnotation # None
        THEN Some(stmt.typeAnnotation[1].name.text)
        ELSE IF stmt.initializer # None
                THEN IF inferExprType(stmt.initializer[1]) # None
                        THEN inferExprType(stmt.initializer[1])
                        ELSE Some("Object")
                ELSE None

\* Resolve the type of a VarStmt from its annotation or initializer.
resolveVarType(stmt) ==
    IF stmt.typeAnnotation # None
        THEN Some(stmt.typeAnnotation[1].name.text)
        ELSE IF stmt.initializer # None
                THEN inferExprType(stmt.initializer[1])
                ELSE None

RECURSIVE collectParameters(_, _)

\* for (const param of parameters) if (param.typeAnnotation) locals.set(...)
collectParameters(parameters, locals) ==
    IF parameters = << >>
        THEN locals
        ELSE LET param == Head(parameters)
             IN  collectParameters(Tail(parameters),
                    IF param.typeAnnotation # None
                        THEN MapSet(locals, param.name.text, param.typeAnnotation[1].name.text)
                        ELSE locals)

RECURSIVE collectFromStmt(_, _, _)
RECURSIVE collectFromStatements(_, _, _)
RECURSIVE collectFromBody(_, _, _)

RECURSIVE collectFromStatements_Reversed(_, _, _)

\* collectFromStatements visiting the last statement first.
collectFromStatements_Reversed(statements, offset, locals) ==
    IF statements = << >>
        THEN locals
        ELSE collectFromStmt(Head(statements), offset,
                             collectFromStatements_Reversed(Tail(statements), offset, locals))

collectFromStatements(statements, offset, locals) ==
    IF statements = << >>
        THEN locals
        ELSE collectFromStatements(Tail(statements), offset,
                                   collectFromStmt(Head(statements), offset, locals))

collectFromBody(body, offset, locals) ==
    LET withParameters == IF body.parameters # None
                            THEN collectParameters(body.parameters[1], locals)
                            ELSE locals
    IN  IF body.statements # None
            THEN collectFromStatements(body.statements[1], offset, withParameters)
            ELSE withParameters

\* Walk expression trees looking for block arguments (closures).
collectFromExprBlockArgs(expr, offset, locals) ==
    IF expr.kind = "CallExpr"
        THEN IF expr.blockArgument # None
                THEN collectFromBody(expr.blockArgument[1], offset, locals)
                ELSE locals
        ELSE locals

collectFromStmt(stmt, offset, locals) ==
    CASE stmt.kind = "VarStmt" ->
            IF stmt.name.start < offset
                THEN LET typeName == resolveVarType(stmt)
                     IN  IF typeName # None
                            THEN MapSet(locals, stmt.name.text, typeName[1])
                            ELSE locals
                ELSE locals
      [] stmt.kind = "BlockStmt" -> collectFromStatements(stmt.statements, offset, locals)
      [] stmt.kind = "IfStmt" ->
            LET afterThen == collectFromStmt(stmt.thenBranch, offset, locals)
            IN  IF stmt.elseBranch # None
                    THEN collectFromStmt(stmt.elseBranch[1], offset, afterThen)
                    ELSE afterThen
      [] stmt.kind = "WhileStmt" -> collectFromStmt(stmt.body, offset, locals)
      [] stmt.kind = "ForStmt" ->
            collectFromStmt(stmt.body, offset,
                IF stmt.variable.start < offset /\ stmt.typeAnnotation # None
                    THEN MapSet(locals, stmt.variable.text, stmt.typeAnnotation[1].name.text)
                    ELSE locals)
      [] OTHER -> collectFromExprBlockArgs(stmt, offset, locals)

\* The first keyword of a member, else its name.
MethodStart(member) ==
    Coalesce(member.foreignKeyword,
        Coalesce(member.staticKeyword,
            Coalesce(member.constructKeyword, member.name.start)))

collectFromMethod(member, offset, locals) ==
    IF member.body = None
        THEN locals
        ELSE IF offset < MethodStart(member)
                THEN locals
                ELSE LET withParameters ==
                            IF member.parameters # None
                                THEN collectParameters(member.parameters[1], locals)
                                ELSE locals
                         withSubscript ==
                            IF member.subscriptParameters # None
                                THEN collectParameters(member.subscriptParameters[1], withParameters)
                                ELSE withParameters
                     IN  collectFromBody(member.body[1], offset, withSubscript)

RECURSIVE collectFromMethods(_, _, _)

\* for (const method of cls.methods) collectFromMethod(method, offset, locals)
collectFromMethods(methods, offset, locals) ==
    IF methods = << >>
        THEN locals
        ELSE collectFromMethods(Tail(methods), offset,
                                collectFromMethod(Head(methods), offset, locals))

ClassStart(classStmt) == Coalesce(classStmt.foreignKeyword, classStmt.classKeyword.start)

\* ClassEnd without the length of the closing brace.
ClassEnd_BraceStart(classStmt) == classStmt.rightBrace.start

ClassEnd(classStmt) == classStmt.rightBrace.start + classStmt.rightBrace.length

RECURSIVE walkTopLevel(_, _, _)

\* The walk over the top-level statements, which stops at the class the
\* cursor is inside.
walkTopLevel(statements, offset, locals) ==
    IF statements = << >>
        THEN [locals |-> locals, enclosingClass |-> None]
        ELSE LET first == Head(statements)
             IN  IF first.kind = "ClassStmt"
                    THEN IF offset >= ClassStart(first) /\ offset <= ClassEnd(first)
                            THEN [locals |-> collectFromMethods(first.methods, offset, locals),
                                  enclosingClass |-> Some(first.name.text)]
                            ELSE walkTopLevel(Tail(statements), offset, locals)
                    ELSE IF first.kind = "VarStmt"
                            THEN walkTopLevel(Tail(statements), offset,
                                    IF first.name.start < offset
                                        THEN LET typeName == resolveVarType(first)
                                             IN  IF typeName # None
                                                    THEN MapSet(locals, first.name.text, typeName[1])
                                                    ELSE locals
                                        ELSE locals)
                            ELSE walkTopLevel(Tail(statements), offset, locals)

\* Resolves the types of all visible local variables at a character offset.
resolveTypeAtPosition(module, offset) == walkTopLevel(module.statements, offset, EmptyMap)

(***************************************************************************)
(* The modules the resolver is applied to.  Each top-level statement sits  *)
(* in a slot of SlotWidth characters; a module is up to MaxStmts of them.  *)
(***************************************************************************)

MaxStmts == 2

SlotWidth == 15

Token(text, start) == [text |-> text, start |-> start]

Keyword(start) == Some([start |-> start])

TypeAnnotation(text) == Some([name |-> [text |-> text]])

NumExpr == [kind |-> "NumExpr"]

StringExpr == [kind |-> "StringExpr"]

BoolExpr == [kind |-> "BoolExpr"]

\* left operator right, as the parser returns an operator expression.
InfixExpr(left, operator, right) ==
    [kind |-> "InfixExpr", left |-> left, operator |-> [text |-> operator], right |-> right]

GroupingExpr(expression) == [kind |-> "GroupingExpr", expression |-> expression]

\* A bare name: CallExpr { receiver: null, name, arguments: null }
NameExpr(text) ==
    [kind |-> "CallExpr", receiver |-> None, name |-> [text |-> text],
     arguments |-> None, blockArgument |-> None]

\* receiver.name(arguments) blockArgument
CallExpr(receiver, text, arguments, blockArgument) ==
    [kind |-> "CallExpr", receiver |-> Some(receiver), name |-> [text |-> text],
     arguments |-> arguments, blockArgument |-> blockArgument]

\* Vec2.new(1, 2)
NewExpr(className) == CallExpr(NameExpr(className), "new", Some(<< NumExpr, NumExpr >>), None)

VarStmt(text, start, typeAnnotation, initializer) ==
    [kind |-> "VarStmt", name |-> Token(text, start),
     typeAnnotation |-> typeAnnotation, initializer |-> initializer]

Parameter(text, start, typeAnnotation) ==
    [name |-> Token(text, start), typeAnnotation |-> typeAnnotation]

Body(parameters, statements) == [parameters |-> parameters, statements |-> statements]

Method(foreignKeyword, staticKeyword, constructKeyword, text, start, parameters, body) ==
    [foreignKeyword |-> foreignKeyword, staticKeyword |-> staticKeyword,
     constructKeyword |-> constructKeyword, name |-> Token(text, start),
     parameters |-> parameters, subscriptParameters |-> None, body |-> body]

ClassStmt(text, start, methods, rightBrace) ==
    [kind |-> "ClassStmt", foreignKeyword |-> None, classKeyword |-> [start |-> start],
     name |-> Token(text, start + 6), methods |-> methods,
     rightBrace |-> [start |-> rightBrace, length |-> 1]]

\*   class Foo {
\*     m(a: Num) { var p: Vec2 = 1 }
\*     n { var p = "s" }
\*   }
ClassFoo(b) ==
    ClassStmt("Foo", b,
        << Method(None, None, None, "m", b + 1, Some(<< Parameter("a", b + 2, TypeAnnotation("Num")) >>),
                  Some(Body(None, Some(<< VarStmt("p", b + 3, TypeAnnotation("Vec2"), Some(NumExpr)) >>)))),
           Method(None, None, None, "n", b + 5, None,
                  Some(Body(None, Some(<< VarStmt("p", b + 7, None, Some(StringExpr)) >>)))) >>,
        b + 8)

\*   class Bar {
\*     static s(q: String) {
\*       if (true) { var x: Num = 1 + 2 } else var x = "s"
\*       for (i: Num in list) while (true) var r = 1..2
\*       list.each {|e: Foo| var p: Vec2 }
\*     }
\*     foreign f(z: Num)
\*   }
ClassBar(b) ==
    ClassStmt("Bar", b,
        << Method(None, Keyword(b + 1), None, "s", b + 2,
                  Some(<< Parameter("q", b + 3, TypeAnnotation("String")) >>),
                  Some(Body(None, Some(<<
                      [kind |-> "IfStmt", condition |-> BoolExpr,
                       thenBranch |-> [kind |-> "BlockStmt", statements |->
                            << VarStmt("x", b + 4, TypeAnnotation("Num"),
                                       Some(InfixExpr(NumExpr, "+", NumExpr))) >>],
                       elseBranch |-> Some(VarStmt("x", b + 5, None, Some(StringExpr)))],
                      [kind |-> "ForStmt", variable |-> Token("i", b + 6),
                       typeAnnotation |-> TypeAnnotation("Num"), iterator |-> NameExpr("list"),
                       body |-> [kind |-> "WhileStmt", condition |-> BoolExpr,
                                 body |-> VarStmt("r", b + 7, None,
                                                  Some(InfixExpr(NumExpr, "..", NumExpr)))]],
                      CallExpr(NameExpr("list"), "each", None,
                               Some(Body(Some(<< Parameter("e", b + 8, TypeAnnotation("Foo")) >>),
                                         Some(<< VarStmt("p", b + 9, TypeAnnotation("Vec2"), None) >>))))
                  >>)))),
           Method(Keyword(b + 10), None, None, "f", b + 11,
                  Some(<< Parameter("z", b + 12, TypeAnnotation("Num")) >>), None) >>,
        b + 13)

\*   foreign class Baz {
\*     construct new(v: Vec2) {}
\*   }
\* with the closing brace as the last character of the slot.
ClassBaz(b) ==
    [kind |-> "ClassStmt", foreignKeyword |-> Keyword(b + 2), classKeyword |-> [start |-> b + 4],
     name |-> Token("Baz", b + 5),
     methods |-> << Method(None, None, Keyword(b + 6), "new", b + 7,
                           Some(<< Parameter("v", b + 8, TypeAnnotation("Vec2")) >>),
                           Some(Body(None, Some(<< >>)))) >>,
     rightBrace |-> [start |-> b + SlotWidth - 1, length |-> 1]]

\* { statements }, with its braces.
BlockStmt(leftBrace, statements, rightBrace) ==
    [kind |-> "BlockStmt", leftBrace |-> [start |-> leftBrace], statements |-> statements,
     rightBrace |-> [start |-> rightBrace, length |-> 1]]

\*   class Solo {
\*     m {
\*       { var v = 1 }
\*       { var v = "s" }
\*     }
\*   }
ClassSolo(b) ==
    ClassStmt("Solo", b,
        << Method(None, None, None, "m", b + 1, None,
                  Some(Body(None, Some(<<
                      BlockStmt(b + 2, << VarStmt("v", b + 3, None, Some(NumExpr)) >>, b + 4),
                      BlockStmt(b + 5, << VarStmt("v", b + 6, None, Some(StringExpr)) >>, b + 7)
                  >>)))) >>,
        b + 8)

\* The top-level statement of a shape, placed at offset b; a module-level
\* `var name` has its name token at b + 4.
StmtAt(shape, b) ==
    CASE shape = 1 -> VarStmt("x", b + 4, None, Some(InfixExpr(NumExpr, "+", NumExpr)))
      [] shape = 2 -> VarStmt("s", b + 4, None, Some(InfixExpr(StringExpr, "+", StringExpr)))
      [] shape = 3 -> VarStmt("r", b + 4, None, Some(InfixExpr(NumExpr, "..", NumExpr)))
      [] shape = 4 -> VarStmt("x", b + 4, None, Some(NumExpr))
      [] shape = 5 -> VarStmt("s", b + 4, None, Some(StringExpr))
      [] shape = 6 -> VarStmt("p", b + 4, TypeAnnotation("Vec2"), Some(NewExpr("Vec2")))
      [] shape = 7 -> VarStmt("p", b + 4, TypeAnnotation("Vec2"), Some(NumExpr))
      [] shape = 8 -> VarStmt("p", b + 4, TypeAnnotation("Vec2"), None)
      [] shape = 9 -> VarStmt("p", b + 4, None, Some(NewExpr("Foo")))
      [] shape = 10 -> VarStmt("x", b + 4, None, Some(GroupingExpr(NumExpr)))
      [] shape = 11 -> VarStmt("x", b + 4, None, None)
      [] shape = 12 -> VarStmt("x", b + 4, TypeAnnotation("Num"),
                               Some(InfixExpr(StringExpr, "+", StringExpr)))
      [] shape = 13 -> ClassFoo(b)
      [] shape = 14 -> ClassBar(b)
      [] shape = 15 -> ClassBaz(b)
      [] shape = 16 -> ClassSolo(b)

Shapes == 1..16

\* The shapes of the statements of a module, in order.
ModuleShapes == UNION { [1..n -> Shapes] : n \in 1..MaxStmts }

ModuleOf(shapes) ==
    [statements |-> [i \in DOMAIN shapes |-> StmtAt(shapes[i], (i - 1) * SlotWidth)]]

Offsets == 0..(MaxStmts * SlotWidth)

\* The service as constructed, no call made.
Constructed ==
    /\ textDocuments = EmptyMap
    /\ disk = EmptyMap
    /\ configuration = [additionalModuleDirectories |-> << >>, enableDiagnostics |-> TRUE]
    /\ documentCache = EmptyMap
    /\ externalCache = EmptyMap
    /\ additionalSearchRoots = refreshConfiguration(configuration).additionalSearchRoots
    /\ enableDiagnostics = refreshConfiguration(configuration).enableDiagnostics
    /\ load = Idle
    /\ last = NoCall
    /\ agg = NoAggregate
    /\ diag = NoDiagnosticsCall

ServiceVars == << textDocuments, disk, configuration, documentCache, externalCache,
                  additionalSearchRoots, enableDiagnostics, load, last, agg, diag >>

InitScope ==
    /\ Constructed
    /\ \E shapes \in ModuleShapes, offset \in Offsets :
            request = [pc |-> "asked", module |-> ModuleOf(shapes), offset |-> offset]

\* resolveTypeAtPosition(module, offset) answers the request.
ResolveTypeAtPosition ==
    /\ request.pc = "asked"
    /\ request' = [pc |-> "answered", module |-> request.module, offset |-> request.offset,
                   result |-> resolveTypeAtPosition(request.module, request.offset)]
    /\ UNCHANGED ServiceVars

NextScope == ResolveTypeAtPosition

SpecScope == InitScope /\ [][NextScope]_vars

(***************************************************************************)
(* Properties of the scope resolver.                                       *)
(***************************************************************************)

RECURSIVE DeclarationsInStmt(_)
RECURSIVE DeclarationsInStatements(_)

\* The parameters of a list, as declarations.
DeclarationsOfParameters(parameters) ==
    IF parameters = None
        THEN << >>
        ELSE [i \in DOMAIN parameters[1] |-> [text |-> parameters[1][i].name.text, var |-> None]]

DeclarationsInBody(body) ==
    DeclarationsOfParameters(body.parameters)
        \o (IF body.statements = None THEN << >> ELSE DeclarationsInStatements(body.statements[1]))

DeclarationsInStatements(statements) ==
    IF statements = << >>
        THEN << >>
        ELSE DeclarationsInStmt(Head(statements)) \o DeclarationsInStatements(Tail(statements))

\* Every declaration (var statement, loop variable, block parameter) a
\* statement holds, at any depth.
DeclarationsInStmt(node) ==
    CASE node.kind = "VarStmt" -> << [text |-> node.name.text, var |-> Some(node)] >>
      [] node.kind = "BlockStmt" -> DeclarationsInStatements(node.statements)
      [] node.kind = "IfStmt" ->
            DeclarationsInStmt(node.thenBranch)
                \o (IF node.elseBranch = None THEN << >> ELSE DeclarationsInStmt(node.elseBranch[1]))
      [] node.kind = "WhileStmt" -> DeclarationsInStmt(node.body)
      [] node.kind = "ForStmt" ->
            << [text |-> node.variable.text, var |-> None] >> \o DeclarationsInStmt(node.body)
      [] node.kind = "CallExpr" ->
            IF node.blockArgument = None THEN << >> ELSE DeclarationsInBody(node.blockArgument[1])
      [] OTHER -> << >>

\* The declarations of a method with a body, its parameters first.
DeclarationsInMethod(member) ==
    IF member.body = None
        THEN << >>
        ELSE DeclarationsOfParameters(member.parameters)
                \o DeclarationsOfParameters(member.subscriptParameters)
                \o DeclarationsInBody(member.body[1])

RECURSIVE DeclarationsInMethods(_)

DeclarationsInMethods(methods) ==
    IF methods = << >>
        THEN << >>
        ELSE DeclarationsInMethod(Head(methods)) \o DeclarationsInMethods(Tail(methods))

\* The name is declared once in the whole class.
DeclaredOnce(classStmt, text) ==
    LET all == DeclarationsInMethods(classStmt.methods)
    IN  Cardinality({ i \in DOMAIN all : all[i].text = text }) = 1

TopLevel == request.module.statements

Locals == request.result.locals

InsideClass(i) ==
    /\ TopLevel[i].kind = "ClassStmt"
    /\ request.offset >= ClassStart(TopLevel[i])
    /\ request.offset <= ClassEnd(TopLevel[i])

\* The walk over the top-level statements reaches statement i: the cursor
\* is inside no class before it.
Reached(i) == \A j \in 1..(i - 1) : ~InsideClass(j)

\* Statement i is a module-level declaration before the cursor that the
\* walk reaches.
Declared(i) ==
    /\ Reached(i)
    /\ TopLevel[i].kind = "VarStmt"
    /\ TopLevel[i].name.start < request.offset

\* ... and the walk reaches no later declaration of the same name, at module
\* level or in the class the cursor is inside.
LastDeclared(i) ==
    /\ Declared(i)
    /\ \A j \in DOMAIN TopLevel :
            j > i /\ Declared(j) => TopLevel[j].name.text # TopLevel[i].name.text
    /\ \A j \in DOMAIN TopLevel :
            j > i /\ Reached(j) /\ InsideClass(j) =>
                LET inside == DeclarationsInMethods(TopLevel[j].methods)
                IN  \A d \in DOMAIN inside : inside[d].text # TopLevel[i].name.text

\* The initializer is `literal operator literal` over literals of one kind.
OperatorOverLiterals(declaration, kind, operator) ==
    /\ declaration.typeAnnotation = None
    /\ declaration.initializer # None
    /\ declaration.initializer[1].kind = "InfixExpr"
    /\ declaration.initializer[1].operator.text = operator
    /\ declaration.initializer[1].left.kind = kind
    /\ declaration.initializer[1].right.kind = kind

Binds(text, typeName) == MapHas(Locals, text) /\ Locals[text] = typeName

\* C16: a variable declared without an annotation before the offset, with an
\* operator expression over literals as initializer, is bound to the type of
\* the operation: Num for 1 + 2, String for "a" + "b", Range for 1..10.
C16_OperatorInference ==
    request.pc = "answered" =>
        \A i \in DOMAIN TopLevel :
            LastDeclared(i) =>
                /\ OperatorOverLiterals(TopLevel[i], "NumExpr", "+")
                        => Binds(TopLevel[i].name.text, "Num")
                /\ OperatorOverLiterals(TopLevel[i], "StringExpr", "+")
                        => Binds(TopLevel[i].name.text, "String")
                /\ OperatorOverLiterals(TopLevel[i], "NumExpr", "..")
                        => Binds(TopLevel[i].name.text, "Range")

\* `var x = 1 + 2` alone in the module, the cursor after it: x is not bound.
C16_Witness ==
    /\ request.pc = "answered"
    /\ Len(TopLevel) = 1
    /\ LastDeclared(1)
    /\ TopLevel[1].name.text = "x"
    /\ OperatorOverLiterals(TopLevel[1], "NumExpr", "+")
    /\ ~MapHas(Locals, "x")

\* The type a declaration is annotated with.
Annotated(declaration) == declaration.typeAnnotation[1].name.text

\* C17: a declaration with a type annotation whose name starts before the
\* offset is bound to the annotated type whatever its initializer is, at
\* module level and inside the methods of the class the cursor is in (for
\* the declaration of a name the walk visits last); the type inferred from
\* the initializer is bound only when there is no annotation.
C17_AnnotationFirst ==
    request.pc = "answered" =>
        /\ \A i \in DOMAIN TopLevel :
                LastDeclared(i) =>
                    IF TopLevel[i].typeAnnotation # None
                        THEN Binds(TopLevel[i].name.text, Annotated(TopLevel[i]))
                        ELSE IF TopLevel[i].initializer # None
                                    /\ inferExprType(TopLevel[i].initializer[1]) # None
                                THEN Binds(TopLevel[i].name.text,
                                           inferExprType(TopLevel[i].initializer[1])[1])
                                ELSE TRUE
        /\ \A i \in DOMAIN TopLevel :
                Reached(i) /\ InsideClass(i) =>
                    \A k \in DOMAIN TopLevel[i].methods :
                        LET member == TopLevel[i].methods[k]
                            inside == DeclarationsInMethod(member)
                        IN  MethodStart(member) <= request.offset =>
                                \A d \in DOMAIN inside :
                                    (/\ inside[d].var # None
                                     /\ inside[d].var[1].name.start < request.offset
                                     /\ inside[d].var[1].typeAnnotation # None
                                     /\ DeclaredOnce(TopLevel[i], inside[d].text))
                                        => Binds(inside[d].text, Annotated(inside[d].var[1]))

\* `var p: Vec2 = 1` is visible at the cursor and p is bound to Vec2, not to
\* the Num of its initializer.
C17_Witness ==
    /\ request.pc = "answered"
    /\ \E i \in DOMAIN TopLevel :
            /\ LastDeclared(i)
            /\ TopLevel[i].typeAnnotation # None
            /\ TopLevel[i].initializer # None
            /\ inferExprType(TopLevel[i].initializer[1]) = Some("Num")
            /\ Annotated(TopLevel[i]) = "Vec2"
            /\ Binds(TopLevel[i].name.text, "Vec2")

(***************************************************************************)
(* Signature help (extension.ts): analyzeSignatureContext.  A line is the  *)
(* sequence of its characters; indices are those of the code, from 0.      *)
(***************************************************************************)

MaxLine == 4

UpperCase == {"F", "V", "B", "N", "Q", "R"}

LowerCase == {"n", "c", "l", "a", "m", "p", "e", "w", "o", "z", "u", "x", "k", "b", "d", "r"}

Digits == {"0", "2"}

\* \s
Whitespace == {" ", "\t"}

\* [A-Za-z_]
IdentStart == UpperCase \cup LowerCase \cup {"_"}

\* [A-Za-z0-9_]
IdentPart == IdentStart \cup Digits

\* text.slice(from, to)
slice(text, from, to) == SubSeq(text, from + 1, to)

RECURSIVE trimEnd(_)

trimEnd(text) ==
    IF text # << >> /\ text[Len(text)] \in Whitespace
        THEN trimEnd(SubSeq(text, 1, Len(text) - 1))
        ELSE text

\* /([A-Za-z_][A-Za-z0-9_]*)$/.exec(text): the group of the leftmost match.
execIdentifierAtEnd(text) ==
    LET starts == { b \in 1..Len(text) :
                        /\ text[b] \in IdentStart
                        /\ \A k \in (b + 1)..Len(text) : text[k] \in IdentPart }
    IN  IF starts = {}
            THEN None
            ELSE Some(SubSeq(text, CHOOSE b \in starts : \A c \in starts : b <= c, Len(text)))

\* /([A-Za-z_][A-Za-z0-9_]*)\.\s*$/.exec(text): the group of the leftmost match.
execReceiver(text) ==
    LET matches == { be \in (1..Len(text)) \X (1..Len(text)) :
                        /\ be[1] <= be[2]
                        /\ text[be[1]] \in IdentStart
                        /\ \A k \in (be[1] + 1)..be[2] : text[k] \in IdentPart
                        /\ be[2] + 1 <= Len(text)
                        /\ text[be[2] + 1] = "."
                        /\ \A k \in (be[2] + 2)..Len(text) : text[k] \in Whitespace }
    IN  IF matches = {}
            THEN None
            ELSE LET leftmost == CHOOSE be \in matches : \A other \in matches : be[1] <= other[1]
                 IN  Some(SubSeq(text, leftmost[1], leftmost[2]))

RECURSIVE scanBack_NoDepth(_, _, _)

\* The backward scan that stops at the first parenthesis it meets.
scanBack_NoDepth(line, i, depth) ==
    IF i < 0
        THEN -1
        ELSE IF line[i + 1] = "(" THEN i ELSE scanBack_NoDepth(line, i - 1, depth)

RECURSIVE scanBack(_, _, _)

\* for (let i = line.length - 1; i >= 0; i--): the index of the open
\* parenthesis, -1 when the loop ends without one.
scanBack(line, i, depth) ==
    IF i < 0
        THEN -1
        ELSE IF line[i + 1] = "("
                THEN IF depth = 0 THEN i ELSE scanBack(line, i - 1, depth - 1)
                ELSE IF line[i + 1] = ")"
                        THEN scanBack(line, i - 1, depth + 1)
                        ELSE scanBack(line, i - 1, depth)

RECURSIVE scanArguments(_, _, _)

\* for (const ch of argumentSlice): the parameter index when the loop ends.
scanArguments(argumentSlice, depth, parameterIndex) ==
    IF argumentSlice = << >>
        THEN parameterIndex
        ELSE LET ch == Head(argumentSlice)
             IN  IF ch = "("
                    THEN scanArguments(Tail(argumentSlice), depth + 1, parameterIndex)
                    ELSE IF ch = ")"
                            THEN IF depth = 0
                                    THEN parameterIndex
                                    ELSE scanArguments(Tail(argumentSlice), depth - 1, parameterIndex)
                            ELSE IF ch = "," /\ depth = 0
                                    THEN scanArguments(Tail(argumentSlice), depth, parameterIndex + 1)
                                    ELSE scanArguments(Tail(argumentSlice), depth, parameterIndex)

\* The signature context of a position in a line, None for undefined.
analyzeSignatureContext(lineText, character) ==
    LET line == slice(lineText, 0, character)
        openParenIndex == scanBack(line, Len(line) - 1, 0)
    IN  IF openParenIndex = -1
            THEN None
            ELSE LET head == trimEnd(slice(line, 0, openParenIndex))
                     methodMatch == execIdentifierAtEnd(head)
                 IN  IF methodMatch = None
                        THEN None
                        ELSE LET methodName == methodMatch[1]
                                 headBeforeMethod == slice(head, 0, Len(head) - Len(methodName))
                                 receiver == execReceiver(headBeforeMethod)
                                 argumentSlice == slice(line, openParenIndex + 1, Len(line))
                             IN  Some([methodName |-> methodName,
                                       receiver |-> receiver,
                                       receiverIsClass |->
                                            IF receiver # None THEN receiver[1][1] \in UpperCase ELSE FALSE,
                                       parameterIndex |-> scanArguments(argumentSlice, 0, 0)])

\* The characters a line is drawn from.
Alphabet == {"n", "F", "0", "(", ")", ",", ".", " "}

ShortLines == UNION { [1..n -> Alphabet] : n \in 0..MaxLine }

\* n.clamp(0,
LineClamp == << "n", ".", "c", "l", "a", "m", "p", "(", "0", "," >>

\* Vec2.new((0,0), n.c(
LineNested ==
    << "V", "e", "c", "2", ".", "n", "e", "w", "(", "(", "0", ",", "0", ")", ",", " ", "n", ".", "c", "(" >>

\* n . c (0
LineSpaced == << "n", " ", ".", " ", "c", " ", "(", "0" >>

ExampleLines == {LineClamp, LineNested, LineSpaced}

\* A line and the cursor's character in it: every short line with the cursor
\* at its end, every example with the cursor anywhere.
SignaturePositions ==
    { << l, Len(l) >> : l \in ShortLines }
        \cup UNION { { << l, c >> : c \in 0..Len(l) } : l \in ExampleLines }

InitSignature ==
    /\ Constructed
    /\ \E at \in SignaturePositions :
            request = [pc |-> "asked", line |-> at[1], character |-> at[2]]

\* analyzeSignatureContext(document, position) answers the request.
AnalyzeSignatureContext ==
    /\ request.pc = "asked"
    /\ request' = [pc |-> "answered", line |-> request.line, character |-> request.character,
                   result |-> analyzeSignatureContext(request.line, request.character)]
    /\ UNCHANGED ServiceVars

NextSignature == AnalyzeSignatureContext

SpecSignature == InitSignature /\ [][NextSignature]_vars

(***************************************************************************)
(* Properties of analyzeSignatureContext.                                  *)
(***************************************************************************)

\* The text before the cursor.
BeforeCursor == SubSeq(request.line, 1, request.character)

\* How many of the positions from..to of the text hold the character.
Count(text, from, to, ch) == Cardinality({ k \in from..to : text[k] = ch })

\* The parentheses in from..to pair up.
Balanced(text, from, to) ==
    /\ Count(text, from, to, "(") = Count(text, from, to, ")")
    /\ \A k \in from..to : Count(text, from, k, "(") >= Count(text, from, k, ")")

\* The `(` at position i is closed by no `)` of the text.
Unclosed(text, i) ==
    /\ text[i] = "("
    /\ ~\E j \in (i + 1)..Len(text) : text[j] = ")" /\ Balanced(text, i + 1, j - 1)

\* The position of the nearest unclosed `(` to the left of the end, 0 when
\* there is none.
ActiveParen(text) ==
    IF \E i \in 1..Len(text) : Unclosed(text, i)
        THEN CHOOSE i \in 1..Len(text) :
                Unclosed(text, i) /\ \A j \in (i + 1)..Len(text) : ~Unclosed(text, j)
        ELSE 0

\* The last position up to `to` that holds no whitespace, 0 when there is none.
LastInk(text, to) ==
    IF \E k \in 1..to : text[k] \notin Whitespace
        THEN CHOOSE k \in 1..to :
                text[k] \notin Whitespace /\ \A j \in (k + 1)..to : text[j] \in Whitespace
        ELSE 0

\* The start of the identifier that ends at position e: the run of name
\* characters ending there, less its leading digits; 0 when it has no letter.
IdentifierStart(text, e) ==
    LET run == { b \in 1..e : \A k \in b..e : text[k] \in IdentPart }
        names == { b \in run : text[b] \notin Digits }
    IN  IF names = {} THEN 0 ELSE CHOOSE b \in names : \A c \in names : b <= c

\* The context the claim describes for the text, None when it describes none.
ExpectedContext(text) ==
    LET open == ActiveParen(text)
        nameEnd == LastInk(text, open - 1)
        nameStart == IF nameEnd = 0 THEN 0 ELSE IdentifierStart(text, nameEnd)
        dot == IF nameStart = 0 THEN 0 ELSE LastInk(text, nameStart - 1)
        hasDot == dot > 1 /\ text[dot] = "."
        receiverStart == IF hasDot THEN IdentifierStart(text, dot - 1) ELSE 0
    IN  IF open = 0 \/ nameStart = 0
            THEN None
            ELSE Some([methodName |-> SubSeq(text, nameStart, nameEnd),
                       receiver |-> IF receiverStart = 0
                                        THEN None
                                        ELSE Some(SubSeq(text, receiverStart, dot - 1)),
                       receiverIsClass |-> receiverStart # 0 /\ text[receiverStart] \in UpperCase,
                       parameterIndex |->
                            Cardinality({ k \in (open + 1)..Len(text) :
                                            /\ text[k] = ","
                                            /\ Count(text, open + 1, k, "(")
                                                    = Count(text, open + 1, k, ")") })])

\* C18: the context is that of the nearest `(` left of the cursor that no
\* `)` closes: the member is the identifier left of it (whitespace ignored),
\* the receiver the identifier before a preceding `.`, a value reference
\* unless it starts with an uppercase letter, the index the number of commas
\* at depth 0 after the `(`; without such a `(` there is no context.  For
\* `n.clamp(0,` it is clamp, n, value reference, 1.
C18_SignatureContext ==
    request.pc = "answered" =>
        /\ request.result = ExpectedContext(BeforeCursor)
        /\ ActiveParen(BeforeCursor) = 0 => request.result = None
        /\ BeforeCursor = LineClamp =>
                request.result = Some([methodName |-> << "c", "l", "a", "m", "p" >>,
                                       receiver |-> Some(<< "n" >>),
                                       receiverIsClass |-> FALSE,
                                       parameterIndex |-> 1])

\* `n.clamp(0,|` has been analyzed: member clamp of the value n, index 1.
C18_Witness ==
    /\ request.pc = "answered"
    /\ BeforeCursor = LineClamp
    /\ request.result # None
    /\ request.result[1].methodName = << "c", "l", "a", "m", "p" >>
    /\ request.result[1].receiver = Some(<< "n" >>)
    /\ ~request.result[1].receiverIsClass
    /\ request.result[1].parameterIndex = 1

\* `Vec2.new((0,0), ` has been analyzed: the balanced pair and its comma are
\* skipped, the receiver is a type.
NestedCallAnalyzed ==
    /\ request.pc = "answered"
    /\ BeforeCursor = SubSeq(LineNested, 1, 16)
    /\ request.result = Some([methodName |-> << "n", "e", "w" >>,
                              receiver |-> Some(<< "V", "e", "c", "2" >>),
                              receiverIsClass |-> TRUE,
                              parameterIndex |-> 1])

(***************************************************************************)
(* Properties of the lists a method symbol is placed in.                   *)
(***************************************************************************)

\* The symbol is in a list.
InList(list, sym) == \E i \in 1..Len(list) : list[i] = sym

\* C19: every constructor of a class symbol of a collected index is in the
\* symbol's static method list, and every constructor in the finished
\* aggregate is in the static overload lists of its class's bucket.
C19_ConstructorsAreStatic ==
    agg.pc = "done" =>
        /\ \A i \in 1..Len(agg.results) :
              \A k \in 1..Len(agg.results[i].classes) :
                  \A sym \in SymbolsOf(agg.results[i].classes[k]) :
                      sym.isConstructor => InList(agg.results[i].classes[k].staticMethods, sym)
        /\ \A sym \in AggregateSymbols(agg.classes) :
              sym.isConstructor => InList(OverloadList(agg.classes, sym, TRUE), sym)

\* The aggregate of a root file that declares class Foo with `construct
\* new()` is finished: the constructor is in the instance lists of bucket
\* Foo and not in its static lists.
C19_Witness ==
    /\ agg.pc = "done"
    /\ \E sym \in AggregateSymbols(agg.classes) :
          /\ sym.file = agg.root
          /\ sym.className = "Foo"
          /\ sym.name = "new"
          /\ sym.isConstructor
          /\ InList(OverloadList(agg.classes, sym, FALSE), sym)
          /\ ~InList(OverloadList(agg.classes, sym, TRUE), sym)

(***************************************************************************)
(* Completion (extension.ts): analyzeCompletionContext, then               *)
(* buildCompletionItems over the aggregate of the document.                *)
(***************************************************************************)

KEYWORDS == << "class", "construct", "foreign", "import", "return", "static", "var" >>

\* /([A-Za-z_][A-Za-z0-9_]*)\.([A-Za-z_][A-Za-z0-9_]*)?$/.exec(text): the two
\* groups of the leftmost match, the second empty when it took no part.
execMember(text) ==
    LET matches == { be \in (1..Len(text)) \X (1..Len(text)) :
                        /\ be[1] <= be[2]
                        /\ text[be[1]] \in IdentStart
                        /\ \A k \in (be[1] + 1)..be[2] : text[k] \in IdentPart
                        /\ be[2] + 1 <= Len(text)
                        /\ text[be[2] + 1] = "."
                        /\ \/ be[2] + 1 = Len(text)
                           \/ /\ text[be[2] + 2] \in IdentStart
                              /\ \A k \in (be[2] + 3)..Len(text) : text[k] \in IdentPart }
    IN  IF matches = {}
            THEN None
            ELSE LET leftmost == CHOOSE be \in matches : \A other \in matches : be[1] <= other[1]
                 IN  Some(<< SubSeq(text, leftmost[1], leftmost[2]),
                             SubSeq(text, leftmost[2] + 2, Len(text)) >>)

\* document.getWordRangeAtPosition(position, /[A-Za-z_][A-Za-z0-9_]*/): the
\* range of the identifier of the line that the position is in or next to,
\* None when there is none.
getWordRangeAtPosition(lineText, character) ==
    LET words == { be \in (1..Len(lineText)) \X (1..Len(lineText)) :
                        /\ be[1] <= be[2]
                        /\ lineText[be[1]] \in IdentStart
                        /\ \A k \in (be[1] + 1)..be[2] : lineText[k] \in IdentPart
                        /\ be[2] = Len(lineText) \/ lineText[be[2] + 1] \notin IdentPart
                        /\ IdentifierStart(lineText, be[2]) = be[1]
                        /\ be[1] - 1 <= character
                        /\ character <= be[2] }
    IN  IF words = {}
            THEN None
            ELSE LET word == CHOOSE be \in words : \A other \in words : be[1] <= other[1]
                 IN  Some([start |-> word[1] - 1, end |-> word[2]])

analyzeCompletionContext(lineText, character) ==
    LET beforeCursor == slice(lineText, 0, character)
        memberMatch == execMember(beforeCursor)
    IN  IF memberMatch # None
            THEN [isMemberAccess |-> TRUE,
                  receiver |-> Some(Join(memberMatch[1][1])),
                  receiverIsClass |-> memberMatch[1][1][1] \in UpperCase,
                  range |-> [start |-> character - Len(memberMatch[1][2]), end |-> character]]
            ELSE LET wordRange == getWordRangeAtPosition(lineText, character)
                 IN  [isMemberAccess |-> FALSE,
                      receiver |-> None,
                      receiverIsClass |-> FALSE,
                      range |-> IF wordRange # None
                                    THEN wordRange[1]
                                    ELSE [start |-> character, end |-> character]]

\* The parts buildSignatureLabel makes the label of: two labels are equal
\* exactly when these are.
Detail(sym) == << sym.isConstructor, sym.isStatic, sym.className, sym.name, sym.params >>

createMethodCompletion(sym, range) ==
    [label |-> sym.name,
     kind |-> IF sym.isStatic THEN "Function" ELSE "Method",
     detail |-> Detail(sym),
     range |-> range,
     insertText |-> IF Len(sym.params) > 0 THEN Some(<< sym.name, sym.params >>) ELSE None]

\* new vscode.CompletionItem(label, kind) with its range.
PlainCompletion(label, kind, range) ==
    [label |-> label, kind |-> kind, detail |-> None, range |-> range, insertText |-> None]

\* The symbols of all overload lists of a Map of overload lists.
ListedSymbols(lists) ==
    UNION { { lists[k][i] : i \in 1..Len(lists[k]) } : k \in DOMAIN lists }

\* The elements of a sequence in the order of their first occurrence: the
\* keys of a Map in the order of their insertion.
Distinct(seq) ==
    LET firsts == SelectSeq([i \in DOMAIN seq |-> i],
                            LAMBDA i : \A j \in 1..(i - 1) : seq[j] # seq[i])
    IN  [k \in DOMAIN firsts |-> seq[firsts[k]]]

\* lists.values(): the overload lists of a Map in the order in which the
\* pushes created them.
mapValues(lists, pushed) ==
    LET keys == Distinct([i \in DOMAIN pushed |-> pushed[i].name])
    IN  [i \in DOMAIN keys |-> lists[keys[i]]]

\* aggregate.classes.values(): the buckets in the order in which the loops
\* of getWorkspaceAggregate created them, the overload lists of each in the
\* order of their creation.
classesValues(entries) ==
    LET all == mergedClasses(entries)
        keys == Distinct([i \in DOMAIN all |-> all[i].name])
        merged == mergeEntries(entries)
    IN  [i \in DOMAIN keys |->
            LET named == SelectSeq(all, LAMBDA c : c.name = keys[i])
            IN  [name |-> keys[i],
                 methods |-> mapValues(merged[keys[i]].methods, pushedMethods(named, FALSE)),
                 staticMethods |-> mapValues(merged[keys[i]].staticMethods,
                                             pushedMethods(named, TRUE))]]

RECURSIVE Flatten(_)

\* The elements of the lists of a sequence of lists, in order.
Flatten(lists) == IF lists = << >> THEN << >> ELSE Head(lists) \o Flatten(Tail(lists))

\* The calls register(`prefix:className:detail`, createMethodCompletion(...))
\* made for the symbols of a sequence, in order.
methodCalls(prefix, symbols, range) ==
    [i \in DOMAIN symbols |->
        [key |-> << prefix, symbols[i].className, Detail(symbols[i]) >>,
         item |-> createMethodCompletion(symbols[i], range)]]

\* register that lets a later call of a key replace the item of an
\* earlier one.
registerAll_KeepLast(calls) ==
    LET pushing == SelectSeq([n \in DOMAIN calls |-> n],
                             LAMBDA n : \A j \in (n + 1)..Len(calls) : calls[j].key # calls[n].key)
    IN  [k \in DOMAIN pushing |->
            [key |-> calls[pushing[k]].key, item |-> calls[pushing[k]].item,
             call |-> pushing[k]]]

\* The array `items` after the calls of register: a call pushes its item
\* unless `seen` has its key, and `seen` holds the keys of the calls before
\* it.  `call` is the number of the call that pushed the item.
registerAll(calls) ==
    LET pushing == SelectSeq([n \in DOMAIN calls |-> n],
                             LAMBDA n : \A j \in 1..(n - 1) : calls[j].key # calls[n].key)
    IN  [k \in DOMAIN pushing |->
            [key |-> calls[pushing[k]].key, item |-> calls[pushing[k]].item,
             call |-> pushing[k]]]

RECURSIVE globalMethodCalls(_, _)

\* The calls of the last loop of buildCompletionItems: for every bucket its
\* instance methods, then its static methods.
globalMethodCalls(buckets, range) ==
    IF buckets = << >>
        THEN << >>
        ELSE methodCalls("method", Flatten(Head(buckets).methods), range)
                \o methodCalls("static-global", Flatten(Head(buckets).staticMethods), range)
                \o globalMethodCalls(Tail(buckets), range)

\* The calls of register after the member-access branches: keywords, class
\* names, and every method.
globalCalls(aggregate, context) ==
    [i \in 1..Len(KEYWORDS) |->
        [key |-> << "keyword", KEYWORDS[i] >>,
         item |-> PlainCompletion(KEYWORDS[i], "Keyword", context.range)]]
    \o [i \in DOMAIN aggregate.values |->
            [key |-> << "class", aggregate.values[i].name >>,
             item |-> PlainCompletion(aggregate.values[i].name, "Class", context.range)]]
    \o globalMethodCalls(aggregate.values, context.range)

RECURSIVE instanceCalls(_, _)

\* The calls for a value receiver: the instance methods of every bucket.
instanceCalls(buckets, range) ==
    IF buckets = << >>
        THEN << >>
        ELSE methodCalls("instance", Flatten(Head(buckets).methods), range)
                \o instanceCalls(Tail(buckets), range)

\* The calls of register that buildCompletionItems makes, in order.
completionCalls(aggregate, context) ==
    IF context.isMemberAccess /\ context.receiver # None
        THEN IF context.receiverIsClass
                THEN IF MapHas(aggregate.classes, context.receiver[1])
                        THEN LET classBucket ==
                                    CHOOSE i \in DOMAIN aggregate.values :
                                        aggregate.values[i].name = context.receiver[1]
                             IN  methodCalls("static",
                                    Flatten(aggregate.values[classBucket].staticMethods),
                                    context.range)
                        ELSE globalCalls(aggregate, context)
                ELSE instanceCalls(aggregate.values, context.range)
        ELSE globalCalls(aggregate, context)

\* buildCompletionItems: the items in the order of their registration, each
\* with the key it was registered under, and the calls of register made.
buildCompletionItems(aggregate, context) ==
    LET made == completionCalls(aggregate, context)
    IN  [calls |-> made, items |-> registerAll(made)]

\* The aggregate a finished getWorkspaceAggregate returns: the Map of
\* buckets, and its values in insertion order.
Aggregate == [classes |-> agg.classes, values |-> classesValues(agg.results)]

\* Foo.  Foo.ma  Baz.  Random.  Num.  Qux.  n.  n.ba  Fo  (empty)
CompletionLines ==
    { << "F", "o", "o", "." >>,
      << "F", "o", "o", ".", "m", "a" >>,
      << "B", "a", "z", "." >>,
      << "R", "a", "n", "d", "o", "m", "." >>,
      << "N", "u", "m", "." >>,
      << "Q", "u", "x", "." >>,
      << "n", "." >>,
      << "n", ".", "b", "a" >>,
      << "F", "o" >>,
      << >> }

\* provideCompletionItems, after its getWorkspaceAggregate has returned:
\* the context of the position and the items built from the aggregate.
ProvideCompletionItems(lineText, character) ==
    /\ agg.pc = "done"
    /\ request.pc = "idle"
    /\ LET contextInfo == analyzeCompletionContext(lineText, character)
           built == buildCompletionItems(Aggregate, contextInfo)
       IN  request' = [pc |-> "answered", line |-> lineText, character |-> character,
                       context |-> contextInfo,
                       calls |-> built.calls,
                       items |-> built.items]
    /\ UNCHANGED ServiceVars

NextCompletion ==
    \/ NextAgg
    \/ \E lineText \in CompletionLines : ProvideCompletionItems(lineText, Len(lineText))

\* The workspaces a completion is asked in: every import list of the root;
\* b.wren imports nothing or c.wren, c.wren nothing or Random of "random".
InitCompletion ==
    \E ia \in RootImports :
        \E ib \in { << >>, << ImportStmt("c", None) >> } :
            \E ic \in { << >>, << ImportStmt("random", Some(<< "Random" >>)) >> } :
                Workspace(ia, ib, ic)

SpecCompletion == InitCompletion /\ [][NextCompletion]_vars

(***************************************************************************)
(* Properties of the completion items.                                     *)
(***************************************************************************)

\* The request was a member access on a receiver that starts uppercase.
TypeReceiver ==
    /\ request.pc = "answered"
    /\ request.context.isMemberAccess
    /\ request.context.receiverIsClass

\* The registered items of the answer.
Registered == { request.items[i] : i \in DOMAIN request.items }

\* The items of the static bucket of the class a name has in the aggregate,
\* none when the name has no bucket.
StaticBucketItems(className) ==
    IF MapHas(agg.classes, className)
        THEN { createMethodCompletion(sym, request.context.range) :
                    sym \in ListedSymbols(agg.classes[className].staticMethods) }
        ELSE {}

\* C20: the items returned for a member access on a type receiver are items
\* of the static bucket of the class of that name, whether or not the
\* aggregate has such a class: no keyword, no class name and no method of
\* another class is among them.
C20_TypeReceiverItems ==
    TypeReceiver =>
        \A r \in Registered :
            /\ r.item.kind \notin {"Keyword", "Class"}
            /\ r.item \in StaticBucketItems(request.context.receiver[1])

\* `Qux.` has been completed and the aggregate has no class Qux: the items
\* hold the keywords, the class names and the methods of every class.
C20_Witness ==
    /\ TypeReceiver
    /\ request.context.receiver = Some("Qux")
    /\ ~MapHas(agg.classes, "Qux")
    /\ \E r \in Registered : r.item.kind = "Keyword"
    /\ \E r \in Registered : r.item.kind = "Class" /\ r.item.label = "Foo"
    /\ \E r \in Registered : r.item.kind = "Method" /\ r.item.label = "bar"

\* For a type receiver whose class is in the aggregate the items are
\* exactly those of the class's static bucket.
KnownTypeReceiverItems ==
    (TypeReceiver /\ MapHas(agg.classes, request.context.receiver[1])) =>
        { r.item : r \in Registered } = StaticBucketItems(request.context.receiver[1])

\* `Foo.` has been completed with b.wren's class Foo in the aggregate: the
\* only item is its static method make.
KnownTypeReceiverCompleted ==
    /\ TypeReceiver
    /\ request.context.receiver = Some("Foo")
    /\ \E r \in Registered : r.item.label = "make"
    /\ \A r \in Registered : r.item.label = "make"

\* The calls of register behind the answer, in order.
Calls == request.calls

MaxEdits == 2

\* What the analyzer reports: the code of a finding and where it is.
Finding(code, at) == [code |-> code, range |-> at, severity |-> "Warning"]

\* The texts of the work file: with no finding, with warnings only, with
\* errors only, and with both, the errors among the warnings.
FlagTexts ==
    { [classes |-> ClassesA, imports |-> << >>, rawDiagnostics |-> raw] :
        raw \in { << >>,
                  << Finding("unused-variable", 1), Finding("type-mismatch", 2) >>,
                  << Finding("parse-error", 1) >>,
                  << Finding("unused-variable", 1), Finding("undefined-variable", 2),
                     Finding("type-mismatch", 3), Finding("duplicate-variable", 4),
                     Finding("parse-error", 5) >> } }

\* const alwaysShow = new Set([...])
alwaysShow == {"parse-error", "duplicate-variable", "undefined-variable"}

\* A slip: the filter is applied whatever the flag.
getDiagnosticsResult_AlwaysFiltered(document) ==
    LET r == analyzeAndCache(document)
    IN  [diagnostics |-> SelectSeq(r.entry.diagnostics, LAMBDA d : d.code \in alwaysShow),
         documentCache |-> r.documentCache,
         analyzerCalls |-> r.analyzerCalls]

\* getDiagnostics(document): the list it returns, the Document Cache it
\* leaves and the analyzer calls it made.
getDiagnosticsResult(document) ==
    LET r == analyzeAndCache(document)
        all == r.entry.diagnostics
    IN  [diagnostics |-> IF ~enableDiagnostics
                         THEN SelectSeq(all, LAMBDA d : d.code \in alwaysShow)
                         ELSE all,
         documentCache |-> r.documentCache,
         analyzerCalls |-> r.analyzerCalls]

\* No diagnostics have been asked for.
NoAnswer == [pc |-> "idle", previous |-> None]

\* What a getDiagnostics call saw and returned.
Answer(document, flag, r) ==
    [fsPath |-> document.fsPath, version |-> document.version, enabled |-> flag,
     diagnostics |-> r.diagnostics, analyzerCalls |-> r.analyzerCalls]

InitFlag ==
    /\ disk = [f \in {WorkFile} |-> DiskFile(1)]
    /\ \E text \in FlagTexts :
          textDocuments = [f \in {WorkFile} |->
                              [version |-> 1, text |-> text, languageId |-> "wren"]]
    /\ configuration \in { cfg \in Settings :
                              cfg.additionalModuleDirectories = << "", "lib" >> }
    /\ documentCache = EmptyMap
    /\ externalCache = EmptyMap
    /\ additionalSearchRoots = refreshConfiguration(configuration).additionalSearchRoots
    /\ enableDiagnostics = refreshConfiguration(configuration).enableDiagnostics
    /\ load = Idle
    /\ last = NoCall
    /\ agg = NoAggregate
    /\ diag = NoDiagnosticsCall
    /\ request = NoAnswer

\* The user edits the document: it has the next version and the text
\* `text`, and the change handler invalidates it.
EditDocument(fsPath, text) ==
    /\ IsOpen(fsPath)
    /\ textDocuments[fsPath].version <= MaxEdits
    /\ textDocuments[fsPath].text # text
    /\ textDocuments' = [textDocuments EXCEPT ![fsPath] =
                            [@ EXCEPT !.version = @ + 1, !.text = text]]
    /\ documentCache' = invalidateDocument([fsPath |-> fsPath,
                                            version |-> textDocuments'[fsPath].version,
                                            text |-> text])
    /\ last' = Removed("invalidateDocument", fsPath,
                       Dropped(documentCache, documentCache'))
    /\ UNCHANGED << disk, configuration, externalCache, additionalSearchRoots,
                    enableDiagnostics, load, agg, diag, request >>

\* The user switches wren.enableDiagnostics and the host reports it.
SwitchDiagnostics ==
    OnDidChangeConfiguration([configuration EXCEPT !.enableDiagnostics = ~@],
                             Some([affectsDirectories |-> FALSE,
                                   affectsDiagnostics |-> TRUE]))

\* A caller asks for the diagnostics of the open document.
GetDiagnostics(fsPath) ==
    /\ IsOpen(fsPath)
    /\ LET r == getDiagnosticsResult(Document(fsPath))
       IN  /\ documentCache' = r.documentCache
           /\ last' = Returned("getDiagnostics", fsPath, r.analyzerCalls, 0,
                               r.documentCache[fsPath])
           /\ request' = [pc |-> "answered",
                          answer |-> Answer(Document(fsPath), enableDiagnostics, r),
                          previous |-> IF request.pc = "answered"
                                       THEN Some(request.answer) ELSE None]
    /\ UNCHANGED << textDocuments, disk, configuration, externalCache,
                    additionalSearchRoots, enableDiagnostics, load, agg, diag >>

NextFlag ==
    \/ \E text \in FlagTexts : EditDocument(WorkFile, text)
    \/ SwitchDiagnostics
    \/ GetDiagnostics(WorkFile)

SpecFlag == InitFlag /\ [][NextFlag]_vars

\* The diagnostics the analyzer reports for the open document, converted.
AllDiagnostics(fsPath) == analyzeDocument(Document(fsPath), << >>).diagnostics

\* List `part` is list `whole` without the elements that fail `keep`, the
\* others in their order.
Kept(part, whole, keep(_)) ==
    /\ \A i \in DOMAIN part : keep(part[i])
    /\ \E pick \in [DOMAIN part -> DOMAIN whole] :
          /\ \A i \in DOMAIN part : whole[pick[i]] = part[i]
          /\ \A i, j \in DOMAIN part : i < j => pick[i] < pick[j]
          /\ \A k \in DOMAIN whole : keep(whole[k]) => \E i \in DOMAIN part : pick[i] = k

IsError(d) == d.code \in {"parse-error", "duplicate-variable", "undefined-variable"}

\* C23: with the flag enabled getDiagnostics returns every cached
\* diagnostic of the document, with the flag disabled exactly the cached
\* ones whose code is parse-error, duplicate-variable or
\* undefined-variable, in their order; the cached list is the analyzer's
\* full list under either flag, a call on a cached document leaves the
\* cache as it is and analyses nothing, and so a call after the flag is
\* enabled again returns the full list with no analysis.
C23_FlagFiltersResult ==
    /\ [](request.pc = "answered" /\ last.op = "getDiagnostics" =>
            LET cached == documentCache[request.answer.fsPath].diagnostics
            IN  /\ cached = AllDiagnostics(request.answer.fsPath)
                /\ request.answer.enabled => request.answer.diagnostics = cached
                /\ ~request.answer.enabled =>
                       Kept(request.answer.diagnostics, cached, IsError))
    /\ [][ (request'.pc = "answered" /\ last'.op = "getDiagnostics"
            /\ MapHas(documentCache, WorkFile)) =>
               /\ documentCache' = documentCache
               /\ request'.answer.analyzerCalls = 0 ]_vars

\* The flag was disabled and a call returned the errors only; it was
\* enabled again and the next call returned the full list, warnings
\* included, with no analysis.
C23_Witness ==
    /\ request.pc = "answered"
    /\ last.op = "getDiagnostics"
    /\ request.previous # None
    /\ ~request.previous[1].enabled
    /\ request.previous[1].version = request.answer.version
    /\ request.answer.enabled
    /\ request.answer.analyzerCalls = 0
    /\ Len(request.previous[1].diagnostics) > 0
    /\ Len(request.previous[1].diagnostics) < Len(request.answer.diagnostics)
    /\ request.answer.diagnostics = documentCache[WorkFile].diagnostics

(***************************************************************************)
(* The debounced diagnostics refresh of activate (extension.ts).  The host *)
(* keeps the timeouts that have been set and not yet run or cleared;       *)
(* activate keeps the handle of the last one in diagnosticTimer and the    *)
(* diagnostics it published in diagnosticCollection.                       *)
(***************************************************************************)

\* The change events the host reports.
MaxChanges == 3

\* let diagnosticTimer: ... | undefined
Undefined == 0

\* A slip: the pending timeout is left to run.
clearTimeout_Forgotten(timers, handle) == timers

\* clearTimeout(handle): the pending timeouts it leaves; a handle that is
\* undefined, or has run, clears nothing.
clearTimeout(timers, handle) == [h \in (DOMAIN timers) \ {handle} |-> timers[h]]

\* setTimeout(() => refreshDiagnostics(event.document), 300) as the
\* setTimeouts-th call: the handle it returns and the timeouts pending.
setTimeout(timers, setTimeouts, document) ==
    [handle |-> setTimeouts, timers |-> MapSet(timers, setTimeouts, document)]

\* activate has run: no timeout has been set, nothing is published.
Activated ==
    [pc |-> "host", diagnosticTimer |-> Undefined, timers |-> EmptyMap,
     setTimeouts |-> 0, changes |-> 0, edits |-> 0, ran |-> << >>,
     diagnosticCollection |-> EmptyMap]

InitTimer ==
    /\ disk = [f \in EditorFiles |-> DiskFile(1)]
    /\ \E languageId \in LanguageIds :
          textDocuments =
              [f \in EditorFiles |->
                  [version |-> 1, text |-> TextA,
                   languageId |-> IF f = WorkFile THEN languageId ELSE "wren"]]
    /\ configuration \in { cfg \in Settings :
                              cfg.additionalModuleDirectories = << "", "lib" >> }
    /\ documentCache = EmptyMap
    /\ externalCache = EmptyMap
    /\ additionalSearchRoots = refreshConfiguration(configuration).additionalSearchRoots
    /\ enableDiagnostics = refreshConfiguration(configuration).enableDiagnostics
    /\ load = Idle
    /\ last = NoCall
    /\ agg = NoAggregate
    /\ diag = NoDiagnosticsCall
    /\ request = Activated

\* The user edits an open document and the host reports the change to the
\* two handlers activate subscribed: the first invalidates a wren document,
\* the second clears the timeout of diagnosticTimer and sets a new one for
\* a wren document.
DocumentChanged(fsPath) ==
    /\ IsOpen(fsPath)
    /\ request.changes < MaxChanges
    /\ textDocuments' = [textDocuments EXCEPT ![fsPath] =
                            [@ EXCEPT !.version = @ + 1, !.text = Edited(@)]]
    /\ IF textDocuments[fsPath].languageId = "wren"
       THEN LET pending == clearTimeout(request.timers, request.diagnosticTimer)
                set == setTimeout(pending, request.setTimeouts + 1, fsPath)
            IN  /\ documentCache' =
                       invalidateDocument([fsPath |-> fsPath,
                                           version |-> textDocuments'[fsPath].version,
                                           text |-> textDocuments'[fsPath].text])
                /\ last' = Removed("invalidateDocument", fsPath,
                                   Dropped(documentCache, documentCache'))
                /\ request' = [request EXCEPT !.timers = set.timers,
                                              !.diagnosticTimer = set.handle,
                                              !.setTimeouts = @ + 1,
                                              !.changes = @ + 1,
                                              !.edits = @ + 1]
       ELSE /\ UNCHANGED documentCache
            /\ last' = NoCall
            /\ request' = [request EXCEPT !.changes = @ + 1]
    /\ UNCHANGED << disk, configuration, externalCache, additionalSearchRoots,
                    enableDiagnostics, load, agg, diag >>

\* The delay of a pending timeout has passed: the host runs its callback,
\* refreshDiagnostics on the document of the event, which publishes what
\* getDiagnostics returns for the document as it is now.
TimerFires(handle) ==
    /\ request.pc = "host"
    /\ handle \in DOMAIN request.timers
    /\ LET fsPath == request.timers[handle]
           r == getDiagnosticsResult(Document(fsPath))
       IN  /\ documentCache' = r.documentCache
           /\ last' = Returned("getDiagnostics", fsPath, r.analyzerCalls, 0,
                               r.documentCache[fsPath])
           /\ request' =
                  [request EXCEPT
                      !.timers = [h \in (DOMAIN @) \ {handle} |-> @[h]],
                      !.ran = Append(@, [handle |-> handle, fsPath |-> fsPath,
                                         edits |-> request.edits,
                                         version |-> textDocuments[fsPath].version]),
                      !.diagnosticCollection = MapSet(@, fsPath, r.diagnostics)]
    /\ UNCHANGED << textDocuments, disk, configuration, externalCache,
                    additionalSearchRoots, enableDiagnostics, load, agg, diag >>

NextTimer ==
    \/ \E fsPath \in EditorFiles : DocumentChanged(fsPath)
    \/ \E handle \in 1..MaxChanges : TimerFires(handle)

\* The host runs the callback of a timeout once its delay has passed.
SpecTimer ==
    InitTimer /\ [][NextTimer]_vars /\ WF_vars(\E handle \in 1..MaxChanges : TimerFires(handle))

\* The timeouts set and neither run nor cleared.
PendingTimers == DOMAIN request.timers

\* The edit of a wren document that the step reports.
WrenEdit == request'.edits = request.edits + 1

\* C22: an edit of a wren document clears the pending timeout and sets a
\* new one, so at most one timeout is pending at any time; the callback
\* that runs is the one set by the latest edit, no timeout runs twice, and
\* the timeout of an edit runs unless a later edit arrives first: a burst
\* of edits, each before the timeout of the one before has run, leads to
\* one refresh, after the last of them.
C22_DebouncedRefresh ==
    /\ [](Cardinality(PendingTimers) <= 1)
    /\ [][WrenEdit => /\ PendingTimers \cap DOMAIN request'.timers = {}
                      /\ DOMAIN request'.timers = {request'.diagnosticTimer}
                      /\ request'.diagnosticTimer = request'.edits]_vars
    /\ [](\A i \in DOMAIN request.ran :
             /\ request.ran[i].handle = request.ran[i].edits
             /\ \A j \in DOMAIN request.ran : i < j =>
                    request.ran[i].handle < request.ran[j].handle)
    /\ \A n \in 1..MaxChanges :
          (request.edits = n /\ n \in PendingTimers)
              ~> (request.edits > n \/ \E i \in DOMAIN request.ran : request.ran[i].handle = n)

\* Three edits came one after the other before any timeout ran, and then
\* one refresh ran: that of the third edit.
C22_Witness ==
    /\ request.pc = "host"
    /\ request.edits = 3
    /\ Len(request.ran) = 1
    /\ request.ran[1].handle = 3
    /\ PendingTimers = {}
    /\ MapHas(request.diagnosticCollection, request.ran[1].fsPath)

(***************************************************************************)
(* The worklist of collectWorkspaceEntries and the visibility under which  *)
(* an imported file is merged.                                             *)
(***************************************************************************)

\* The entry on top of the worklist, and the worklist below it.
Top(pending) == pending[Len(pending)]

Below(pending) == SubSeq(pending, 1, Len(pending) - 1)

\* The entries collected from a file.
EntriesFrom(fsPath) == { i \in 1..Len(agg.results) : agg.results[i].from = fsPath }

\* A step of the while loop that takes an entry off the worklist.
PopStep == agg.pc = "loop" /\ agg'.pc \in {"loop", "imports"} /\ agg' # agg

\* The names under which an entry shows a class.
Shows(entry, c) == entry.visibleNames = None \/ c.name \in entry.visibleNames[1]

\* C24: the worklist is a stack: a turn of the loop takes its top entry.
\* The first entry popped for a file, the one popped while the file is not
\* yet visited, is collected with its own visible names; an entry popped
\* for a visited file is dropped and collects nothing.  So a non-root file
\* has one collected entry however many imports lead to it, and in the
\* aggregate returned each method of a class of the file is once in its
\* overload list when that entry is unrestricted or names the class, and
\* absent otherwise.
C24_FirstPoppedDecides ==
    /\ [][PopStep =>
            /\ agg.pending # << >>
            /\ agg'.pending = Below(agg.pending)
            /\ LET popped == Top(agg.pending)
                   fsPath == popped.index.fsPath
               IN  IF EntriesFrom(fsPath) # {}
                   THEN agg'.results = agg.results
                   ELSE agg'.results =
                            Append(agg.results,
                                   [classes |-> popped.index.classes,
                                    visibleNames |-> popped.visibleNames,
                                    from |-> fsPath])]_vars
    /\ [](agg.pc = "done" =>
            \A fsPath \in agg.visited \ {agg.root} :
                /\ Cardinality(EntriesFrom(fsPath)) = 1
                /\ \A i \in EntriesFrom(fsPath) :
                       \A k \in 1..Len(agg.results[i].classes) :
                           LET c == agg.results[i].classes[k]
                           IN  \A sym \in SymbolsOf(c) :
                                   Occurrences(agg.classes, sym) =
                                       IF Shows(agg.results[i], c) THEN 1 ELSE 0)

\* The root imports b.wren for Baz alone and then c.wren, and c.wren
\* imports b.wren in full: c.wren's import was pushed last and popped first,
\* so b.wren was collected unrestricted and its class Solo is in the
\* aggregate.
C24_Witness ==
    /\ agg.pc = "done"
    /\ RootImportsOf(agg.root) =
           << ImportStmt("b", Some(<< "Baz" >>)), ImportStmt("c", None) >>
    /\ {"/ws/b.wren", "/ws/c.wren"} \subseteq agg.visited
    /\ \A i \in EntriesFrom("/ws/b.wren") : agg.results[i].visibleNames = None
    /\ "Solo" \in DOMAIN agg.classes

\* The root imports b.wren in full and then for Baz alone: the second
\* import was popped first, and the full import added nothing.
LaterImportPoppedFirst ==
    /\ agg.pc = "done"
    /\ RootImportsOf(agg.root) =
           << ImportStmt("b", None), ImportStmt("b", Some(<< "Baz" >>)) >>
    /\ \E i \in EntriesFrom("/ws/b.wren") : agg.results[i].visibleNames = Some({"Baz"})
    /\ "Solo" \notin DOMAIN agg.classes
    /\ "Baz" \in DOMAIN agg.classes

(***************************************************************************)
(* The overload lists of the aggregate returned.                           *)
(***************************************************************************)

\* The overload lists of an aggregate, static or not, of every bucket.
OverloadLists(classes) ==
    UNION { { classes[n].methods[k] : k \in DOMAIN classes[n].methods }
            \cup { classes[n].staticMethods[k] : k \in DOMAIN classes[n].staticMethods } :
            n \in DOMAIN classes }

\* No element of a list is in it twice.
NoRepeat(list) == \A i, j \in DOMAIN list : i # j => list[i] # list[j]

\* C25: in the aggregate returned no method symbol is more than once in an
\* overload list, whatever the import graph.
C25_NoSymbolTwice ==
    agg.pc = "done" => \A list \in OverloadLists(agg.classes) : NoRepeat(list)

\* The root imports the built-in module random twice: the aggregate was
\* returned, and the overload list of Random's method float holds a symbol
\* twice.
C25_Witness ==
    /\ agg.pc = "done"
    /\ RootImportsOf(agg.root) =
           << ImportStmt("random", None), ImportStmt("random", None) >>
    /\ MapHas(agg.classes, "Random")
    /\ \E list \in OverloadLists(agg.classes) :
          \E i, j \in DOMAIN list : i < j /\ list[i] = list[j] /\ list[i].className = "Random"

\* The built-in modules that the visited files import, one per statement.
BuiltinImportCount ==
    Cardinality({ i \in 1..Len(agg.results) : agg.results[i].from \in BuiltinModuleNames })

\* The symbols of files and of the core classes are never repeated, and
\* with at most one import of a built-in module in the visited files none
\* is.
RepeatsOnlyFromBuiltinModules ==
    agg.pc = "done" =>
        /\ \A list \in OverloadLists(agg.classes) :
              \A i, j \in DOMAIN list :
                  (i # j /\ list[i] = list[j]) =>
                      list[i].file = "" /\ list[i].className \in ModuleClassNames
        /\ BuiltinImportCount <= 1 =>
              \A list \in OverloadLists(agg.classes) : NoRepeat(list)

\* An aggregate with one import of a built-in module has been returned.
SingleBuiltinImportAggregated ==
    /\ agg.pc = "done"
    /\ BuiltinImportCount = 1
    /\ MapHas(agg.classes, "Random")

\* The methods of a class symbol that go to the static, or the other,
\* overload lists.
MethodsOf(c, static) == IF static THEN c.staticMethods ELSE c.methods

\* Where a collected entry declares a method symbol in a class it shows:
\* the class's place in the entry and the method's place in the class.
PlacesIn(entry, sym, static) ==
    UNION { { << k, m >> : m \in { m \in DOMAIN MethodsOf(entry.classes[k], static) :
                                     MethodsOf(entry.classes[k], static)[m] = sym } } :
            k \in { k \in DOMAIN entry.classes :
                      /\ entry.classes[k].name = sym.className
                      /\ Shows(entry, entry.classes[k]) } }

\* The collected entries that hold a method symbol, in traversal order.
Holders(sym, static) ==
    SelectSeq([i \in DOMAIN agg.results |-> i],
              LAMBDA i : PlacesIn(agg.results[i], sym, static) # {})

\* The x-th element of an overload list is the Nth occurrence of its symbol.
Nth(list, x) == Cardinality({ y \in 1..x : list[y] = list[x] })

\* The first place of a set of places, classes before methods.
FirstPlace(places) ==
    CHOOSE p \in places :
        \A q \in places : p[1] < q[1] \/ (p[1] = q[1] /\ p[2] <= q[2])

\* The entry and the declaration that the x-th element of a list comes from.
OriginOf(list, x, static) ==
    LET i == Holders(list[x], static)[Nth(list, x)]
    IN  << i >> \o FirstPlace(PlacesIn(agg.results[i], list[x], static))

\* Origin p is before origin q: an earlier entry, or in one entry an
\* earlier class, or in one class an earlier method.
Earlier(p, q) ==
    \/ p[1] < q[1]
    \/ p[1] = q[1] /\ p[2] < q[2]
    \/ p[1] = q[1] /\ p[2] = q[2] /\ p[3] < q[3]

\* The elements of an overload list stand in the order of their origins
\* (a list of one element does).
InTraversalOrder(list, static) ==
    Len(list) > 1 =>
        /\ \A x \in DOMAIN list : Nth(list, x) <= Len(Holders(list[x], static))
        /\ \A x \in 1..(Len(list) - 1) :
              Earlier(OriginOf(list, x, static), OriginOf(list, x + 1, static))

\* C26: the traversal collects the core classes first, the root file
\* second, and then built-in modules and imported files as it comes to
\* them; in every overload list of the aggregate returned the symbols stand
\* in the order of the entries they come from, and those of one entry in
\* the order of their declarations.
C26_ListsInTraversalOrder ==
    agg.pc = "done" =>
        /\ agg.results[1].from = ""
        /\ agg.results[1].classes = CORE_CLASSES
        /\ agg.results[2].from = agg.root
        /\ \A n \in DOMAIN agg.classes :
              /\ \A k \in DOMAIN agg.classes[n].methods :
                     InTraversalOrder(agg.classes[n].methods[k], FALSE)
              /\ \A k \in DOMAIN agg.classes[n].staticMethods :
                     InTraversalOrder(agg.classes[n].staticMethods[k], TRUE)

\* The root a.wren imports b.wren, both declare Foo.bar(x), and the
\* aggregate was returned: the overload list of bar in bucket Foo holds the
\* root's symbol and then b.wren's.
C26_Witness ==
    /\ agg.pc = "done"
    /\ "/ws/b.wren" \in agg.visited
    /\ MapHas(agg.classes, "Foo")
    /\ MapHas(agg.classes["Foo"].methods, "bar")
    /\ Len(agg.classes["Foo"].methods["bar"]) = 2
    /\ agg.classes["Foo"].methods["bar"][1].file = agg.root
    /\ agg.classes["Foo"].methods["bar"][2].file = "/ws/b.wren"

(***************************************************************************)
(* What an aggregate query writes.                                         *)
(***************************************************************************)

\* A cache entry that a step keeps, with the version or mtime it had, is
\* the entry it was.
CachedIndicesKept ==
    /\ \A p \in (DOMAIN documentCache) \cap (DOMAIN documentCache') :
          documentCache'[p].index.version = documentCache[p].index.version
              => documentCache'[p] = documentCache[p]
    /\ \A p \in (DOMAIN externalCache) \cap (DOMAIN externalCache') :
          externalCache'[p].mtime = externalCache[p].mtime
              => externalCache'[p] = externalCache[p]

\* The class symbols that the collected entries hold are those of the
\* registry and of the analyses of the visited files.
EntriesAsAnalysed ==
    \A i \in DOMAIN agg.results :
        IF agg.results[i].from = "" THEN agg.results[i].classes = CORE_CLASSES
        ELSE IF agg.results[i].from \in BuiltinModuleNames
        THEN agg.results[i].classes = RegistryClasses(agg.results[i].from)
        ELSE agg.results[i].classes = ClassSymbolsOf(agg.results[i].from)

ImportUnresolved ==
    /\ agg.pc = "imports"
    /\ agg.todo # << >>
    /\ ~isBuiltinModule(Head(agg.todo).moduleName)
    /\ resolve(getSearchPathsForFile(agg.current), Head(agg.todo).moduleName,
               agg.current) = None

\* The step completes the load of the import at hand with no index.
ImportLoadFails ==
    /\ agg.pc \in {"imports", "loading"}
    /\ agg.todo # << >>
    /\ last'.op = "loadIndex"
    /\ last'.entry = None

\* The step completes the load of the import at hand with an index.
ImportLoads ==
    /\ agg.pc \in {"imports", "loading"}
    /\ agg.todo # << >>
    /\ last'.op = "loadIndex"
    /\ last'.entry # None

\* The traversal goes on to the next import of the file, with what it has
\* collected and what is pending.
NextImportAtHand ==
    /\ agg'.pc = "imports"
    /\ agg'.todo = Tail(agg.todo)
    /\ agg'.results = agg.results
    /\ agg'.pending = agg.pending
    /\ agg'.visited = agg.visited
    /\ agg'.current = agg.current

\* C28: an import that resolves to no file, or whose load returns no
\* index, leaves the traversal at the next import of the same file with
\* everything collected and pending kept, and an import that loads is
\* pushed; so in the aggregate returned every visited file has its entry,
\* every import of a built-in module of a visited file has one, and every
\* file that an import of a visited file resolves to and that is open is
\* visited too.  A query that has started returns its aggregate.
C28_FailedImportSkipped ==
    /\ [][(ImportUnresolved \/ ImportLoadFails) => NextImportAtHand]_vars
    /\ [][ImportLoads =>
            /\ agg'.pc = "imports"
            /\ agg'.todo = Tail(agg.todo)
            /\ agg'.results = agg.results
            /\ agg'.pending =
                   Append(agg.pending, [index |-> last'.entry[1].index,
                                        visibleNames |-> VisibleNames(Head(agg.todo))])]_vars
    /\ [](agg.pc = "done" =>
            /\ agg.pending = << >>
            /\ \A f \in agg.visited :
                  /\ \E i \in EntriesFrom(f) : agg.results[i].classes = ClassSymbolsOf(f)
                  /\ \A n \in DOMAIN TextOf(f).imports :
                        LET imp == TextOf(f).imports[n]
                            p == resolve(getSearchPathsForFile(f), imp.moduleName, f)
                        IN  IF isBuiltinModule(imp.moduleName)
                            THEN EntriesFrom(imp.moduleName) # {}
                            ELSE (p # None /\ IsOpen(p[1])) => p[1] \in agg.visited)
    /\ (agg.pc \notin {"idle", "done"}) ~> (agg.pc = "done")

\* The root imports a module that no file provides and then b.wren, which
\* imports c.wren, whose load failed: the aggregate was returned with the
\* classes of the root and of b.wren, and without c.wren.
C28_Witness ==
    /\ agg.pc = "done"
    /\ RootImportsOf(agg.root) = << ImportStmt("nowhere", None), ImportStmt("b", None) >>
    /\ TextOf("/ws/b.wren").imports = << ImportStmt("c", None) >>
    /\ agg.visited = {"/ws/a.wren", "/ws/b.wren"}
    /\ {"Foo", "Baz", "Solo"} \subseteq DOMAIN agg.classes
    /\ \E sym \in AggregateSymbols(agg.classes) : sym.file = "/ws/b.wren"

(***************************************************************************)
(* The locations searched for the imports of a file.                       *)
(***************************************************************************)

\* The entries of the setting wren.additionalModuleDirectories: blank,
\* relative to the workspace folder (one of them the folder itself) and
\* absolute (one of them the folder itself).
DirEntries == { "", "lib", "sub", ".", "/lib", "/ws" }

MaxDirs == 2

SearchSettings ==
    [additionalModuleDirectories : UNION { [1..n -> DirEntries] : n \in 0..MaxDirs },
     enableDiagnostics : {TRUE}]

\* The importing files: in the workspace folder, in a directory below it,
\* and outside the workspace.
SearchFiles == { "/ws/a.wren", "/ws/sub/d.wren", "/lib/e.wren" }

InitSearch ==
    /\ textDocuments = EmptyMap
    /\ disk = EmptyMap
    /\ configuration \in SearchSettings
    /\ documentCache = EmptyMap
    /\ externalCache = EmptyMap
    /\ additionalSearchRoots = refreshConfiguration(configuration).additionalSearchRoots
    /\ enableDiagnostics = refreshConfiguration(configuration).enableDiagnostics
    /\ load = Idle
    /\ last = NoCall
    /\ agg = NoAggregate
    /\ diag = NoDiagnosticsCall
    /\ request = NoRequest

\* The search paths for the imports of a file are asked for: those that the
\* resolver is constructed with, and the candidates of the older service
\* for the import of module b.
GetSearchPathsForFile(fsPath) ==
    /\ request' = [pc |-> "answered", fsPath |-> fsPath,
                   searchPaths |-> getSearchPathsForFile(fsPath),
                   candidates |-> resolveCandidates(fsPath, "b")]
    /\ UNCHANGED ServiceVars

NextSearch == \E fsPath \in SearchFiles : GetSearchPathsForFile(fsPath)

SpecSearch == InitSearch /\ [][NextSearch]_vars

\* The elements of a list.
Elements(list) == { list[i] : i \in DOMAIN list }

\* The additional search roots that the settings configure: an absolute
\* entry as it is, a relative one in every workspace folder.
ConfiguredRoots ==
    LET userPaths == configuration.additionalModuleDirectories
    IN  UNION { IF IsBlank(userPaths[i]) THEN {}
                ELSE IF IsAbsolute(userPaths[i]) THEN { userPaths[i] }
                ELSE { PathResolve(folder, userPaths[i]) : folder \in Elements(WorkspaceFolders) } :
                i \in DOMAIN userPaths }

\* C29: the search paths for the imports of a file are its directory,
\* every workspace folder and every configured additional search root, and
\* nothing else, each once, the file's directory first.
C29_SearchLocationsOnce ==
    request.pc = "answered" =>
        /\ Elements(request.searchPaths) =
               { Dirname(request.fsPath) } \cup Elements(WorkspaceFolders) \cup ConfiguredRoots
        /\ NoRepeat(request.searchPaths)
        /\ request.searchPaths[1] = Dirname(request.fsPath)

\* The file is in /ws/sub, and the settings name that directory and the
\* workspace folder as additional roots: the search paths are the two
\* directories, each once.
C29_Witness ==
    /\ request.pc = "answered"
    /\ request.fsPath = "/ws/sub/d.wren"
    /\ configuration.additionalModuleDirectories = << "sub", "/ws" >>
    /\ request.searchPaths = << "/ws/sub", "/ws" >>

\* The candidates of the older service are the import's file in the
\* importing file's directory and in every configured additional root,
\* each once.
OlderCandidates ==
    request.pc = "answered" =>
        /\ Elements(request.candidates) =
               { JoinPath(d, "b.wren") : d \in { Dirname(request.fsPath) } \cup ConfiguredRoots }
        /\ NoRepeat(request.candidates)

\* With no additional root configured the older service looks for the
\* import of a file below the workspace folder in that file's directory
\* alone.
OlderCandidatesWithoutWorkspaceRoot ==
    /\ request.pc = "answered"
    /\ request.fsPath = "/ws/sub/d.wren"
    /\ configuration.additionalModuleDirectories = << >>
    /\ request.candidates = << "/ws/sub/b.wren" >>
    /\ request.searchPaths = << "/ws/sub", "/ws" >>

(***************************************************************************)
(* normalizeImportPath on import strings.                                  *)
(***************************************************************************)

\* The characters of the import strings: white space, the dot, the two
\* separators and a letter.
PathAlphabet == { " ", ".", "/", "\\", "x" }

MaxPath == 4

\* The import strings: short ones, and the same with the extension.
ImportStrings ==
    LET short == UNION { [1..n -> PathAlphabet] : n \in 0..MaxPath }
    IN  short \cup { value \o Extension : value \in short }

InitNormalize ==
    /\ textDocuments = EmptyMap
    /\ disk = EmptyMap
    /\ configuration = [additionalModuleDirectories |-> << >>, enableDiagnostics |-> TRUE]
    /\ documentCache = EmptyMap
    /\ externalCache = EmptyMap
    /\ additionalSearchRoots = << >>
    /\ enableDiagnostics = TRUE
    /\ load = Idle
    /\ last = NoCall
    /\ agg = NoAggregate
    /\ diag = NoDiagnosticsCall
    /\ \E value \in ImportStrings : request = [pc |-> "idle", value |-> value]

\* The import string is normalized, and the result is normalized again.
NormalizeImportPath ==
    /\ request.pc = "idle"
    /\ request' = [pc |-> "answered", value |-> request.value,
                   once |-> normalizeImportPath(request.value),
                   twice |-> normalizeImportPath(normalizeImportPath(request.value))]
    /\ UNCHANGED ServiceVars

NextNormalize == NormalizeImportPath

SpecNormalize == InitNormalize /\ [][NextNormalize]_vars

\* The number of times a text ends with the extension.
RECURSIVE Extensions(_)
Extensions(text) ==
    IF endsWith(text, Extension)
    THEN 1 + Extensions(SubSeq(text, 1, Len(text) - Len(Extension)))
    ELSE 0

\* C30 (as stated): normalizing the result of normalizeImportPath returns
\* that result.
C30_Idempotent ==
    request.pc = "answered" => request.twice = request.once

\* C30 (as amended): the result of normalizeImportPath ends with the
\* extension, once more than the trimmed input when that does not end with
\* it and as often as the trimmed input otherwise; normalizing the result
\* again returns it unchanged unless it begins with white space, and then
\* returns a shorter string, the white space trimmed away.
C30_IdempotentOnTrimmedResults ==
    request.pc = "answered" =>
        /\ endsWith(request.once, Extension)
        /\ Extensions(request.once) =
               IF endsWith(trim(request.value), Extension)
               THEN Extensions(trim(request.value))
               ELSE 1
        /\ request.once[1] \notin StrWhiteSpace => request.twice = request.once
        /\ request.once[1] \in StrWhiteSpace =>
               /\ Len(request.twice) < Len(request.once)
               /\ endsWith(request.once, request.twice)

\* The string " x" was normalized to x.wren, and normalizing that again
\* gave x.wren.
C30_Witness ==
    /\ request.pc = "answered"
    /\ request.value = << " ", "x" >>
    /\ request.once = << "x" >> \o Extension
    /\ request.twice = request.once

\* The string "./ x" was normalized to " x.wren", the name of a file that
\* begins with a blank, and normalizing that again gave x.wren.
LeadingBlankResult ==
    /\ request.pc = "answered"
    /\ request.value = << ".", "/", " ", "x" >>
    /\ request.once = << " ", "x" >> \o Extension
    /\ request.twice = << "x" >> \o Extension

(***************************************************************************)
(* The enclosing class and the module scope (resolveTypeAtPosition).       *)
(***************************************************************************)

\* The offsets from the class/foreign keyword of a class to the end of its
\* closing brace.
Span(classStmt) ==
    (IF classStmt.foreignKeyword # None
        THEN classStmt.foreignKeyword[1].start
        ELSE classStmt.classKeyword.start)
    .. (classStmt.rightBrace.start + classStmt.rightBrace.length)

\* The top-level classes whose span contains the offset.
Containing ==
    { i \in DOMAIN TopLevel : TopLevel[i].kind = "ClassStmt" /\ request.offset \in Span(TopLevel[i]) }

\* The module-level declarations before the offset that have a type.
TypedBefore ==
    { i \in DOMAIN TopLevel :
        /\ TopLevel[i].kind = "VarStmt"
        /\ TopLevel[i].name.start < request.offset
        /\ resolveVarType(TopLevel[i]) # None }

\* C31: the enclosing class is the first top-level class whose span (class
\* or foreign keyword to the end of the closing brace, bounds included) holds
\* the offset; when no class holds it there is no enclosing class and the
\* locals are exactly the typed module-level variables whose name starts
\* before the offset, each with the type of its last such declaration.
C31_EnclosingClass ==
    request.pc = "answered" =>
        IF Containing = {}
            THEN /\ request.result.enclosingClass = None
                 /\ DOMAIN Locals = { TopLevel[i].name.text : i \in TypedBefore }
                 /\ \A i \in TypedBefore :
                        (\A j \in TypedBefore : j > i => TopLevel[j].name.text # TopLevel[i].name.text)
                            => Locals[TopLevel[i].name.text] = resolveVarType(TopLevel[i])[1]
            ELSE \E i \in Containing :
                    /\ \A j \in Containing : i <= j
                    /\ request.result.enclosingClass = Some(TopLevel[i].name.text)

\* The offset is the end of the closing brace of a foreign class and the
\* start of the class that follows: the first one is reported.
C31_Witness ==
    /\ request.pc = "answered"
    /\ Cardinality(Containing) = 2
    /\ TopLevel[1].foreignKeyword # None
    /\ request.offset = TopLevel[1].rightBrace.start + TopLevel[1].rightBrace.length
    /\ request.offset = TopLevel[2].classKeyword.start
    /\ request.result.enclosingClass = Some(TopLevel[1].name.text)

\* The offset is between two classes, on the first characters of a foreign
\* class's slot before its keyword, with a typed variable nowhere: no class.
C31_ModuleScope ==
    /\ request.pc = "answered"
    /\ Len(TopLevel) = 2
    /\ TopLevel[1].kind = "VarStmt"
    /\ TopLevel[2].kind = "ClassStmt"
    /\ TopLevel[2].foreignKeyword # None
    /\ request.offset = TopLevel[2].classKeyword.start - 3
    /\ request.result.enclosingClass = None
    /\ DOMAIN Locals = { TopLevel[1].name.text }

(***************************************************************************)
(* The declarations behind the locals.                                     *)
(***************************************************************************)

RECURSIVE NameTokensInStmt(_)

ParameterTokens(parameters) ==
    IF parameters = None THEN {} ELSE { parameters[1][i].name : i \in DOMAIN parameters[1] }

\* The name tokens of the parameters of a body and of every declaration in
\* its statements.
NameTokensInBody(body) ==
    ParameterTokens(body.parameters)
        \cup (IF body.statements = None
                THEN {}
                ELSE UNION { NameTokensInStmt(body.statements[1][i]) : i \in DOMAIN body.statements[1] })

\* The name tokens of the declarations a statement holds at any depth: var
\* statements, for-loop variables and the parameters of block arguments.
NameTokensInStmt(node) ==
    CASE node.kind = "VarStmt" -> { node.name }
      [] node.kind = "BlockStmt" ->
            UNION { NameTokensInStmt(node.statements[i]) : i \in DOMAIN node.statements }
      [] node.kind = "IfStmt" ->
            NameTokensInStmt(node.thenBranch)
                \cup (IF node.elseBranch = None THEN {} ELSE NameTokensInStmt(node.elseBranch[1]))
      [] node.kind = "WhileStmt" -> NameTokensInStmt(node.body)
      [] node.kind = "ForStmt" -> { node.variable } \cup NameTokensInStmt(node.body)
      [] node.kind = "CallExpr" ->
            IF node.blockArgument = None THEN {} ELSE NameTokensInBody(node.blockArgument[1])
      [] OTHER -> {}

\* ... of a method: its parameters and what its body holds.
NameTokensInMethod(member) ==
    ParameterTokens(member.parameters)
        \cup ParameterTokens(member.subscriptParameters)
        \cup (IF member.body = None THEN {} ELSE NameTokensInBody(member.body[1]))

\* ... of the whole module: module variables and everything in the methods
\* of its classes.
NameTokens ==
    UNION { IF TopLevel[i].kind = "ClassStmt"
                THEN UNION { NameTokensInMethod(TopLevel[i].methods[k]) :
                                k \in DOMAIN TopLevel[i].methods }
                ELSE NameTokensInStmt(TopLevel[i]) : i \in DOMAIN TopLevel }

DeclaredBefore(text) == \E token \in NameTokens : token.text = text /\ token.start < request.offset

\* C32: every name in the returned locals is bound by a declaration (module
\* variable, method parameter, closure parameter, for-loop variable or local
\* variable) whose name token starts before the offset.
C32_BoundBeforeOffset ==
    request.pc = "answered" => \A text \in DOMAIN Locals : DeclaredBefore(text)

\* The offset is in the first statement of Bar.s, in front of the closure
\* `list.each {|e: Foo| ... }`: e is in the locals, bound to Foo.
C32_Witness ==
    /\ request.pc = "answered"
    /\ request.result.enclosingClass = Some("Bar")
    /\ \E token \in NameTokens :
            /\ token.text = "e"
            /\ request.offset < token.start
            /\ \E other \in NameTokens : other.text = "x" /\ other.start < request.offset
    /\ ~DeclaredBefore("e")
    /\ Binds("e", "Foo")

\* Every name in the locals has a declaration before the offset or is
\* declared in a method with a body whose first token is at or before the
\* offset (its parameters and the parameters of its block arguments are bound
\* wherever they stand).
BoundBeforeOffsetOrParameter ==
    request.pc = "answered" =>
        \A text \in DOMAIN Locals :
            \/ DeclaredBefore(text)
            \/ \E i \in Containing :
                    \E k \in DOMAIN TopLevel[i].methods :
                        LET member == TopLevel[i].methods[k]
                        IN  /\ member.body # None
                            /\ MethodStart(member) <= request.offset
                            /\ \E token \in NameTokensInMethod(member) : token.text = text

(***************************************************************************)
(* The same name in two sibling blocks.                                    *)
(***************************************************************************)

\* The var statements directly in a block statement.
VarsOf(block) ==
    { block.statements[i] : i \in { j \in DOMAIN block.statements : block.statements[j].kind = "VarStmt" } }

\* The offset is between the braces of the block.
InsideBlock(block) == request.offset > block.leftBrace.start /\ request.offset <= block.rightBrace.start

\* The class the resolver stops at.
Enclosing(i) == i \in Containing /\ \A j \in Containing : i <= j

\* The statements of the bodies of the methods of a class.
MethodBodies(classStmt) ==
    { classStmt.methods[k].body[1].statements[1] :
        k \in { l \in DOMAIN classStmt.methods :
                    /\ classStmt.methods[l].body # None
                    /\ classStmt.methods[l].body[1].statements # None } }

\* Two var statements declare one name with two types, both before the
\* offset, and the class declares the name nowhere else.
TwoTypes(classStmt, one, two) ==
    /\ one.name.text = two.name.text
    /\ one.name.start < request.offset
    /\ two.name.start < request.offset
    /\ resolveVarType(one) # None
    /\ resolveVarType(two) # None
    /\ resolveVarType(one) # resolveVarType(two)
    /\ { token \in UNION { NameTokensInMethod(classStmt.methods[k]) : k \in DOMAIN classStmt.methods } :
            token.text = one.name.text } = { one.name, two.name }

C33_BehindBoth ==
    /\ request.pc = "answered"
    /\ \E i \in DOMAIN TopLevel :
            /\ Enclosing(i)
            /\ \E statements \in MethodBodies(TopLevel[i]) :
                    /\ Len(statements) = 2
                    /\ statements[1].kind = "BlockStmt"
                    /\ statements[2].kind = "BlockStmt"
                    /\ request.offset > statements[2].rightBrace.start
                    /\ \E one \in VarsOf(statements[1]), two \in VarsOf(statements[2]) :
                            /\ TwoTypes(TopLevel[i], one, two)
                            /\ Binds(two.name.text, "String")

\* With the offset inside the first of two sibling blocks, the declaration
\* in the second one is behind the offset: the case of two declarations
\* before an offset in the first block does not arise.
FirstBlockSeesOneDeclaration ==
    request.pc = "answered" =>
        \A i \in DOMAIN TopLevel :
            Enclosing(i) =>
                \A statements \in MethodBodies(TopLevel[i]) :
                    \A a, b \in DOMAIN statements :
                        (/\ a < b
                         /\ statements[a].kind = "BlockStmt"
                         /\ statements[b].kind = "BlockStmt"
                         /\ InsideBlock(statements[a])) =>
                            \A two \in VarsOf(statements[b]) : ~(two.name.start < request.offset)

(***************************************************************************)
(* Declarations without a type.                                            *)
(***************************************************************************)

RECURSIVE LiteralOrConstructor(_)

\* The expression is a literal, a constructor call `Name.new(...)` or one of
\* these in parentheses.
LiteralOrConstructor(expr) ==
    \/ expr.kind \in {"NumExpr", "StringExpr", "InterpolationExpr", "BoolExpr", "NullExpr",
                      "ListExpr", "MapExpr"}
    \/ /\ expr.kind = "CallExpr"
       /\ expr.name.text = "new"
       /\ expr.receiver # None
       /\ expr.receiver[1].kind = "CallExpr"
       /\ expr.receiver[1].receiver = None
    \/ /\ expr.kind = "GroupingExpr"
       /\ LiteralOrConstructor(expr.expression)

\* A declaration without annotation whose initializer is none of these.
Untyped(declaration) ==
    /\ declaration.typeAnnotation = None
    /\ declaration.initializer # None
    /\ ~LiteralOrConstructor(declaration.initializer[1])

\* The typed module-level declarations of the name of declaration i in
\* front of it.
TypedEarlier(i) ==
    { j \in 1..(i - 1) :
        /\ Declared(j)
        /\ TopLevel[j].name.text = TopLevel[i].name.text
        /\ resolveVarType(TopLevel[j]) # None }

C34_Omitted ==
    /\ request.pc = "answered"
    /\ \E i \in DOMAIN TopLevel :
            /\ Enclosing(i)
            /\ \E token \in NameTokens : token.text = "r" /\ token.start < request.offset
            /\ DeclaredOnce(TopLevel[i], "r")
            /\ Len(TopLevel) = 1
            /\ ~MapHas(Locals, "r")

(***************************************************************************)
(* Scoping between the methods of a class.                                 *)
(***************************************************************************)

\* The offset is inside method k of the class: from the method's first token
\* up to the next method's first token or the closing brace of the class.
InsideMethod(classStmt, k) ==
    /\ MethodStart(classStmt.methods[k]) <= request.offset
    /\ request.offset <= classStmt.rightBrace.start
    /\ k < Len(classStmt.methods) => request.offset < MethodStart(classStmt.methods[k + 1])

\* A declaration of the name in method k of the class, or at module level in
\* front of the class.
VisibleIn(i, k, text) ==
    \/ \E token \in NameTokensInMethod(TopLevel[i].methods[k]) : token.text = text
    \/ \E j \in 1..(i - 1) : TopLevel[j].kind = "VarStmt" /\ TopLevel[j].name.text = text

\* C35: with the offset inside method M of a class, the returned locals hold
\* no binding that comes only from a parameter or a local variable of another
\* method of the class.
C35_MethodsScoped ==
    request.pc = "answered" =>
        \A i \in DOMAIN TopLevel :
            Enclosing(i) =>
                \A k \in DOMAIN TopLevel[i].methods :
                    InsideMethod(TopLevel[i], k) =>
                        \A text \in DOMAIN Locals : VisibleIn(i, k, text)

\* The offset is at the start of Foo.n, behind `m(a: Num) { var p: Vec2 = 1 }`:
\* the locals hold the parameter a and the local p of m.
C35_Witness ==
    /\ request.pc = "answered"
    /\ Len(TopLevel) = 1
    /\ Enclosing(1)
    /\ TopLevel[1].name.text = "Foo"
    /\ InsideMethod(TopLevel[1], 2)
    /\ request.offset = MethodStart(TopLevel[1].methods[2])
    /\ ~VisibleIn(1, 2, "a")
    /\ Binds("a", "Num")
    /\ Binds("p", "Vec2")

\* What the methods in front of the offset declare is what the locals of a
\* class can hold: every name is declared in a method whose first token is
\* at or before the offset, or at module level in front of the class.
LocalsFromMethodsBefore ==
    request.pc = "answered" =>
        \A i \in DOMAIN TopLevel :
            Enclosing(i) =>
                \A text \in DOMAIN Locals :
                    \/ \E j \in 1..(i - 1) :
                            TopLevel[j].kind = "VarStmt" /\ TopLevel[j].name.text = text
                    \/ \E k \in DOMAIN TopLevel[i].methods :
                            /\ MethodStart(TopLevel[i].methods[k]) <= request.offset
                            /\ VisibleIn(i, k, text)

(***************************************************************************)
(* Signature help (extension.ts): provideSignatureHelp and buildSignatures *)
(* over the aggregate of the document.                                     *)
(***************************************************************************)

\* pushMethods: one SignatureInformation per overload of the method name.
pushMethods(methods, methodName) ==
    IF MapHas(methods, methodName)
        THEN [i \in DOMAIN methods[methodName] |->
                [label |-> Detail(methods[methodName][i]),
                 parameters |-> methods[methodName][i].params]]
        ELSE << >>

buildSignatures(aggregate, context) ==
    IF context.receiver # None /\ context.receiverIsClass
        THEN IF MapHas(aggregate.classes, context.receiver[1])
                THEN pushMethods(aggregate.classes[context.receiver[1]].staticMethods,
                                 context.methodName)
                ELSE << >>
        ELSE Flatten([i \in DOMAIN aggregate.values |->
                        pushMethods(aggregate.classes[aggregate.values[i].name].methods,
                                    context.methodName)])

\* Math.min
MathMin(a, b) == IF a <= b THEN a ELSE b

\* provideSignatureHelp once getWorkspaceAggregate has returned; None is null.
provideSignatureHelp(aggregate, lineText, character) ==
    LET contextInfo == analyzeSignatureContext(lineText, character)
    IN  IF contextInfo = None
            THEN None
            ELSE LET signatures ==
                        buildSignatures(aggregate,
                            [methodName |-> Join(contextInfo[1].methodName),
                             receiver |-> IF contextInfo[1].receiver = None
                                            THEN None
                                            ELSE Some(Join(contextInfo[1].receiver[1])),
                             receiverIsClass |-> contextInfo[1].receiverIsClass,
                             parameterIndex |-> contextInfo[1].parameterIndex])
                 IN  IF Len(signatures) = 0
                        THEN None
                        ELSE Some([signatures |-> signatures,
                                   activeSignature |-> 0,
                                   activeParameter |->
                                        MathMin(contextInfo[1].parameterIndex,
                                                Len(signatures[1].parameters) - 1)])

\* n.call(  n.call(0,0  n.clamp(0,  n.clamp(0,0,0  n.new(  n.bar(0  n.zz(
\* Foo.make(  Foo.bar(  n
HelpLines ==
    { << "n", ".", "c", "a", "l", "l", "(" >>,
      << "n", ".", "c", "a", "l", "l", "(", "0", ",", "0" >>,
      << "n", ".", "c", "l", "a", "m", "p", "(", "0", "," >>,
      << "n", ".", "c", "l", "a", "m", "p", "(", "0", ",", "0", ",", "0" >>,
      << "n", ".", "n", "e", "w", "(" >>,
      << "n", ".", "b", "a", "r", "(", "0" >>,
      << "n", ".", "z", "z", "(" >>,
      << "F", "o", "o", ".", "m", "a", "k", "e", "(" >>,
      << "F", "o", "o", ".", "b", "a", "r", "(" >>,
      << "n" >> }

ProvideSignatureHelp(lineText, character) ==
    /\ agg.pc = "done"
    /\ request.pc = "idle"
    /\ request' = [pc |-> "answered", line |-> lineText, character |-> character,
                   result |-> provideSignatureHelp(Aggregate, lineText, character)]
    /\ UNCHANGED ServiceVars

NextHelp ==
    \/ NextAgg
    \/ \E lineText \in HelpLines : ProvideSignatureHelp(lineText, Len(lineText))

\* The workspaces signature help is asked in: every import list of the root.
InitHelp == \E ia \in RootImports : Workspace(ia, << >>, << >>)

SpecHelp == InitHelp /\ [][NextHelp]_vars

\* C36: a result of provideSignatureHelp has at least one signature and an
\* active parameter between 0 and the number of parameters of the first
\* signature minus 1, also when the first overload has no parameters.
C36_ActiveParameterInRange ==
    (request.pc = "answered" /\ request.result # None) =>
        /\ Len(request.result[1].signatures) >= 1
        /\ request.result[1].activeParameter >= 0
        /\ request.result[1].activeParameter <= Len(request.result[1].signatures[1].parameters) - 1

\* `n.call(`: the overloads of Fn.call, the first without parameters, and the
\* active parameter is -1.
C36_Witness ==
    /\ request.pc = "answered"
    /\ request.line = << "n", ".", "c", "a", "l", "l", "(" >>
    /\ request.result # None
    /\ Len(request.result[1].signatures) > 1
    /\ request.result[1].signatures[1].parameters = << >>
    /\ request.result[1].activeParameter = -1

\* A result has a signature; the active parameter is in range when the first
\* signature has parameters and -1 when it has none.
ActiveParameterOrMinusOne ==
    (request.pc = "answered" /\ request.result # None) =>
        /\ Len(request.result[1].signatures) >= 1
        /\ LET parameters == request.result[1].signatures[1].parameters
           IN  IF parameters = << >>
                    THEN request.result[1].activeParameter = -1
                    ELSE request.result[1].activeParameter \in 0..(Len(parameters) - 1)

\* `n.clamp(0,0,0`: the index 2 is cut down to the last parameter of clamp.
IndexCutDown ==
    /\ request.pc = "answered"
    /\ request.result # None
    /\ analyzeSignatureContext(request.line, request.character)[1].parameterIndex = 2
    /\ request.result[1].activeParameter = 1

(***************************************************************************)
(* The one diagnosticTimer and several documents.                          *)
(***************************************************************************)

\* A refresh of the document has run since it got its present version.
RefreshedAsIs(fsPath) ==
    \E i \in DOMAIN request.ran :
        /\ request.ran[i].fsPath = fsPath
        /\ request.ran[i].version = textDocuments[fsPath].version

\* C37: after the last edit of a wren document a diagnostics refresh of
\* that document eventually runs (timers fire), also when edits of different
\* documents interleave within the delay.
C37_EveryEditedDocumentRefreshed ==
    \A fsPath \in EditorFiles :
        \A n \in 2..(MaxChanges + 1) :
            (textDocuments[fsPath].languageId = "wren" /\ textDocuments[fsPath].version = n)
                ~> (textDocuments[fsPath].version > n \/ RefreshedAsIs(fsPath))

\* Two wren documents were edited one after the other before a timeout ran;
\* the one timeout that ran refreshed the second, no timeout is pending, and
\* the first has not been refreshed since its edit.
C37_Witness ==
    /\ request.pc = "host"
    /\ request.edits = 2
    /\ PendingTimers = {}
    /\ Len(request.ran) = 1
    /\ \E first, second \in EditorFiles :
            /\ first # second
            /\ textDocuments[first].languageId = "wren"
            /\ textDocuments[first].version = 2
            /\ textDocuments[second].version = 2
            /\ request.ran[1].fsPath = second
            /\ ~RefreshedAsIs(first)
            /\ ~MapHas(request.diagnosticCollection, first)

\* The document of the latest edit of a wren document is the one that is
\* refreshed: once no timeout is pending, the last refresh that ran is that
\* of the last edit.
LatestEditRefreshed ==
    \A n \in 1..MaxChanges :
        (request.edits = n /\ n \in PendingTimers)
            ~> (request.edits > n
                    \/ (request.ran # << >> /\ request.ran[Len(request.ran)].handle = n))

(***************************************************************************)
(* Closing a document while a timeout is pending (extension.ts).  The      *)
(* callback of a timeout holds the document of its event; a closed         *)
(* document stays as it was when it was closed.                            *)
(***************************************************************************)

\* activate has run; no document has been closed.
ActivatedOpen ==
    [field \in (DOMAIN Activated) \cup {"closed"} |->
        IF field = "closed" THEN EmptyMap ELSE Activated[field]]

InitClose ==
    /\ disk = [f \in EditorFiles |-> DiskFile(1)]
    /\ textDocuments = [f \in EditorFiles |-> [version |-> 1, text |-> TextA, languageId |-> "wren"]]
    /\ configuration \in { cfg \in Settings : cfg.additionalModuleDirectories = << "", "lib" >> }
    /\ documentCache = EmptyMap
    /\ externalCache = EmptyMap
    /\ additionalSearchRoots = refreshConfiguration(configuration).additionalSearchRoots
    /\ enableDiagnostics = refreshConfiguration(configuration).enableDiagnostics
    /\ load = Idle
    /\ last = NoCall
    /\ agg = NoAggregate
    /\ diag = NoDiagnosticsCall
    /\ request = ActivatedOpen

\* The host closes a document and calls the two handlers activate
\* subscribed: the first evicts the path of a wren document, the second
\* deletes what is published for the document.  No handler touches
\* diagnosticTimer.
DocumentClosed(fsPath) ==
    /\ IsOpen(fsPath)
    /\ textDocuments' = MapDelete(textDocuments, fsPath)
    /\ IF textDocuments[fsPath].languageId = "wren"
       THEN /\ documentCache' = evictPath(fsPath).documentCache
            /\ externalCache' = evictPath(fsPath).externalCache
            /\ last' = Removed("evictPath", fsPath,
                               Dropped(documentCache, documentCache')
                               + Dropped(externalCache, externalCache'))
       ELSE /\ UNCHANGED << documentCache, externalCache >>
            /\ last' = NoCall
    /\ request' = [request EXCEPT
                      !.diagnosticCollection = MapDelete(@, fsPath),
                      !.closed = MapSet(@, fsPath,
                                        [document |-> Document(fsPath),
                                         languageId |-> textDocuments[fsPath].languageId,
                                         setTimeouts |-> request.setTimeouts])]
    /\ UNCHANGED << disk, configuration, additionalSearchRoots, enableDiagnostics,
                    load, agg, diag >>

\* The host opens a closed file as a wren document and calls
\* refreshDiagnostics, the handler activate subscribed.
DocumentOpened(fsPath) ==
    /\ ~IsOpen(fsPath)
    /\ MapHas(disk, fsPath)
    /\ textDocuments' = MapSet(textDocuments, fsPath,
                               [version |-> 1, text |-> disk[fsPath].text, languageId |-> "wren"])
    /\ LET r == getDiagnosticsResult([fsPath |-> fsPath, version |-> 1, text |-> disk[fsPath].text])
       IN  /\ documentCache' = r.documentCache
           /\ last' = Returned("getDiagnostics", fsPath, r.analyzerCalls, 0,
                               r.documentCache[fsPath])
           /\ request' = [request EXCEPT !.diagnosticCollection = MapSet(@, fsPath, r.diagnostics)]
    /\ UNCHANGED << disk, configuration, externalCache, additionalSearchRoots,
                    enableDiagnostics, load, agg, diag >>

\* The document the callback of a timeout holds: the document of the event
\* that set it, closed since or still open.
DocumentOfTimer(handle) ==
    LET fsPath == request.timers[handle]
    IN  IF MapHas(request.closed, fsPath) /\ handle <= request.closed[fsPath].setTimeouts
            THEN request.closed[fsPath].document
            ELSE Document(fsPath)

\* The delay of a pending timeout has passed and the host runs its
\* callback: refreshDiagnostics on the document of the event, open or not.
TimerRuns(handle) ==
    /\ request.pc = "host"
    /\ handle \in DOMAIN request.timers
    /\ LET document == DocumentOfTimer(handle)
           r == getDiagnosticsResult(document)
       IN  /\ documentCache' = r.documentCache
           /\ last' = Returned("getDiagnostics", document.fsPath, r.analyzerCalls, 0,
                               r.documentCache[document.fsPath])
           /\ request' =
                  [request EXCEPT
                      !.timers = [h \in (DOMAIN @) \ {handle} |-> @[h]],
                      !.ran = Append(@, [handle |-> handle, fsPath |-> document.fsPath,
                                         edits |-> request.edits,
                                         version |-> document.version]),
                      !.diagnosticCollection = MapSet(@, document.fsPath, r.diagnostics)]
    /\ UNCHANGED << textDocuments, disk, configuration, externalCache,
                    additionalSearchRoots, enableDiagnostics, load, agg, diag >>

NextClose ==
    \/ \E fsPath \in EditorFiles : DocumentChanged(fsPath)
    \/ \E fsPath \in EditorFiles : DocumentClosed(fsPath)
    \/ \E fsPath \in EditorFiles : DocumentOpened(fsPath)
    \/ \E handle \in 1..MaxChanges : TimerRuns(handle)

SpecClose == InitClose /\ [][NextClose]_vars

\* The wren document at the path is closed.
ClosedWren(fsPath) ==
    /\ ~IsOpen(fsPath)
    /\ MapHas(request.closed, fsPath)
    /\ request.closed[fsPath].languageId = "wren"

\* C38: while a wren document is closed, the Document Cache has no entry
\* for it and nothing is published for it, also when a timeout set by an
\* edit before the close was pending when it was closed.
C38_ClosedStaysGone ==
    \A fsPath \in EditorFiles :
        ClosedWren(fsPath) =>
            /\ ~MapHas(documentCache, fsPath)
            /\ ~MapHas(request.diagnosticCollection, fsPath)

\* A document was edited and closed before its timeout ran; the timeout has
\* run since: the closed document is in the Document Cache and has
\* diagnostics published.
C38_Witness ==
    /\ request.pc = "host"
    /\ \E fsPath \in EditorFiles :
            /\ ClosedWren(fsPath)
            /\ request.ran # << >>
            /\ request.ran[Len(request.ran)].fsPath = fsPath
            /\ request.ran[Len(request.ran)].handle <= request.closed[fsPath].setTimeouts
            /\ PendingTimers = {}
            /\ MapHas(documentCache, fsPath)
            /\ documentCache[fsPath].index.version = request.closed[fsPath].document.version
            /\ MapHas(request.diagnosticCollection, fsPath)

\* The close itself leaves nothing: right after it the path is in neither
\* cache and nothing is published for it.
CloseEvicts ==
    [][\A fsPath \in EditorFiles :
            (IsOpen(fsPath) /\ ~(fsPath \in DOMAIN textDocuments')) =>
                /\ ~MapHas(documentCache', fsPath)
                /\ ~MapHas(externalCache', fsPath)
                /\ ~MapHas(request'.diagnosticCollection, fsPath)]_vars

\* An entry of a closed document comes from a timeout that was pending at
\* the close and ran after it.
OnlyPendingTimeoutsRestore ==
    \A fsPath \in EditorFiles :
        (ClosedWren(fsPath) /\ MapHas(documentCache, fsPath)) =>
            \E i \in DOMAIN request.ran :
                /\ request.ran[i].fsPath = fsPath
                /\ request.ran[i].handle <= request.closed[fsPath].setTimeouts

(***************************************************************************)
(* The caches across a change of the search roots.  `request` notes, for   *)
(* every cache entry, the search paths handed to the analysis that made    *)
(* it, and for the last query what it served.                              *)
(***************************************************************************)

\* The notes kept for the keys a cache still has.
NotesFor(notes, cache) == [key \in (DOMAIN notes) \cap (DOMAIN cache) |-> notes[key]]

\* Nothing analysed, nothing served.
NoNotes == [pc |-> "roots", computed |-> EmptyMap, loaded |-> EmptyMap, served |-> None]

\* What a query served: the document asked about, the cache the entry is
\* in, whether it was found there, the search paths of the analysis that
\* made it, the search paths at the time of the query, and the entry.
Served(document, cache, hit, under, entry) ==
    Some([document |-> document, cache |-> cache, hit |-> hit, under |-> under,
          now |-> getSearchPaths(document), entry |-> entry])

InitRoots ==
    /\ disk = [f \in Paths |-> DiskFile(1)]
    /\ textDocuments = [f \in {WorkFile} |-> [version |-> 1, text |-> TextB, languageId |-> "wren"]]
    /\ configuration \in Settings
    /\ documentCache = EmptyMap
    /\ externalCache = EmptyMap
    /\ additionalSearchRoots = refreshConfiguration(configuration).additionalSearchRoots
    /\ enableDiagnostics = refreshConfiguration(configuration).enableDiagnostics
    /\ load = Idle
    /\ last = NoCall
    /\ agg = NoAggregate
    /\ diag = NoDiagnosticsCall
    /\ request = NoNotes

\* The user changes wren.additionalModuleDirectories (and perhaps the other
\* setting) and the host calls handleConfigurationChange.
RootsChanged(cfg) ==
    /\ cfg.additionalModuleDirectories # configuration.additionalModuleDirectories
    /\ configuration' = cfg
    /\ LET event == Some([affectsDirectories |-> TRUE,
                          affectsDiagnostics |->
                              cfg.enableDiagnostics # configuration.enableDiagnostics])
           r == handleConfigurationChange(event, cfg)
       IN  /\ additionalSearchRoots' = r.additionalSearchRoots
           /\ enableDiagnostics' = r.enableDiagnostics
           /\ externalCache' = r.externalCache
           /\ last' = Removed("handleConfigurationChange(directories)", "",
                              Dropped(externalCache, externalCache'))
           /\ request' = [request EXCEPT !.served = None,
                                         !.loaded = NotesFor(@, r.externalCache)]
    /\ UNCHANGED << textDocuments, disk, documentCache, load, agg, diag >>

\* The user edits the open document; the handler invalidates it.
DocumentEdited(fsPath) ==
    /\ IsOpen(fsPath)
    /\ textDocuments[fsPath].version < MaxVersion
    /\ textDocuments' = [textDocuments EXCEPT ![fsPath] =
                            [@ EXCEPT !.version = @ + 1, !.text = Edited(@)]]
    /\ documentCache' = invalidateDocument([fsPath |-> fsPath,
                                            version |-> textDocuments'[fsPath].version,
                                            text |-> textDocuments'[fsPath].text])
    /\ last' = Removed("invalidateDocument", fsPath, Dropped(documentCache, documentCache'))
    /\ request' = [request EXCEPT !.served = None,
                                  !.computed = NotesFor(@, documentCache')]
    /\ UNCHANGED << disk, configuration, externalCache, additionalSearchRoots,
                    enableDiagnostics, load, agg, diag >>

\* A query on the open document (getFileIndex, getDiagnostics,
\* getTypedLocals): analyzeAndCache returns the cached entry or analyses
\* with the search paths of the moment.
DocumentQueried(fsPath) ==
    /\ IsOpen(fsPath)
    /\ LET document == Document(fsPath)
           r == analyzeAndCache(document)
           under == IF r.analyzerCalls = 0
                        THEN request.computed[fsPath]
                        ELSE getSearchPaths(document)
       IN  /\ documentCache' = r.documentCache
           /\ last' = Returned("query", fsPath, r.analyzerCalls, 0, r.entry)
           /\ request' = [request EXCEPT
                             !.computed = MapSet(@, fsPath, under),
                             !.served = Served(document, "document",
                                               r.analyzerCalls = 0, under, r.entry)]
    /\ UNCHANGED << textDocuments, disk, configuration, externalCache,
                    additionalSearchRoots, enableDiagnostics, load, agg, diag >>

\* loadIndex of a file that is not open, up to its stat.
ExternalCalled(fsPath) ==
    /\ ~IsOpen(fsPath)
    /\ LoadIndexCall(fsPath)
    /\ request' = [request EXCEPT !.served = None]
    /\ UNCHANGED << agg, diag >>

\* The stat completes: a cached entry of the same mtime is served.
ExternalStatted ==
    /\ LoadIndexStat
    /\ request' =
          [request EXCEPT
              !.served = IF last'.entry # None
                            THEN Served([fsPath |-> load.path, version |-> 1,
                                         text |-> disk[load.path].text],
                                        "external", TRUE, request.loaded[load.path],
                                        last'.entry[1])
                            ELSE None]
    /\ UNCHANGED << agg, diag >>

\* The file is read and analysed with the search paths of the moment.
ExternalOpened(outcome) ==
    /\ LoadIndexOpen(outcome)
    /\ LET diskDocument == [fsPath |-> load.path, version |-> 1, text |-> disk[load.path].text]
       IN  request' =
              IF last'.entry # None
                 THEN [request EXCEPT
                          !.loaded = MapSet(@, load.path, getSearchPaths(diskDocument)),
                          !.served = Served(diskDocument, "external", FALSE,
                                            getSearchPaths(diskDocument), last'.entry[1])]
                 ELSE [request EXCEPT !.served = None]
    /\ UNCHANGED << agg, diag >>

NextRoots ==
    \/ \E cfg \in Settings : RootsChanged(cfg)
    \/ \E fsPath \in EditorFiles : DocumentEdited(fsPath)
    \/ \E fsPath \in EditorFiles : DocumentQueried(fsPath)
    \/ \E fsPath \in EditorFiles : ExternalCalled(fsPath)
    \/ ExternalStatted
    \/ \E outcome \in Outcomes : ExternalOpened(outcome)

SpecRoots == InitRoots /\ [][NextRoots]_vars

ReloadedUnderNewRoots ==
    /\ request.served # None
    /\ request.served[1].cache = "external"
    /\ ~request.served[1].hit
    /\ last.analyzerCalls = 1
    /\ configuration.additionalModuleDirectories = << "lib", "/ws/lib", "/lib" >>

(***************************************************************************)
(* Host events at the await points of getWorkspaceAggregate.  The awaits   *)
(* that give up control are those of loadIndex on a file that is not open  *)
(* (fs.stat, openTextDocument): between them the host delivers edits,      *)
(* changes of the dirty state, closes, openings, changes of the search     *)
(* roots and queries.  `request` notes the search paths handed to the      *)
(* analysis of every External File Cache entry and the kinds of event      *)
(* delivered since the aggregate at hand was called.                       *)
(***************************************************************************)

\* Nothing loaded, nothing delivered.
Undisturbed == [pc |-> "race", loaded |-> EmptyMap, events |-> {}]

\* The aggregate at hand waits for the stat or the read of a file.
AtAwait == agg.pc = "loading" /\ load.pc \in {"stat", "open"}

\* The notes after a step: kept for the entries the External File Cache
\* still has; `kinds` are the events delivered by the step.
Noted(kinds) ==
    request' = [request EXCEPT !.loaded = NotesFor(@, externalCache'),
                               !.events = @ \cup kinds]

InitRace ==
    /\ \E ia \in { << ImportStmt("c", None), ImportStmt("b", None) >>,
                   << ImportStmt("b", None), ImportStmt("c", None) >> },
          ib \in { << >>, << ImportStmt("c", None) >> } :
            LET imports == [f \in Paths |->
                               IF f = "/ws/a.wren" THEN ia
                               ELSE IF f = "/ws/b.wren" THEN ib ELSE << >>]
                text == [f \in Paths |->
                            [classes |-> ClassesOf(f), imports |-> imports[f],
                             rawDiagnostics |-> << >>]]
            IN  /\ disk = [f \in Paths |-> [mtime |-> 1, text |-> text[f]]]
                /\ textDocuments =
                       [f \in EditorFiles |->
                           [version |-> 1, text |-> text[f], languageId |-> "wren"]]
    /\ configuration = [additionalModuleDirectories |-> << "", "lib" >>,
                        enableDiagnostics |-> TRUE]
    /\ documentCache = EmptyMap
    /\ externalCache = EmptyMap
    /\ additionalSearchRoots = refreshConfiguration(configuration).additionalSearchRoots
    /\ enableDiagnostics = refreshConfiguration(configuration).enableDiagnostics
    /\ load = Idle
    /\ last = NoCall
    /\ agg = NoAggregate
    /\ diag = NoDiagnosticsCall
    /\ request = Undisturbed

\* A provider calls getWorkspaceAggregate on the work file.
RaceStart ==
    /\ AggStart(WorkFile)
    /\ request' = [request EXCEPT !.events = {}]
    /\ UNCHANGED diag

\* The synchronous stretches of the aggregate.
RacePop == AggPop /\ Noted({}) /\ UNCHANGED diag

RaceImport == AggImport /\ Noted({}) /\ UNCHANGED diag

RaceFinish == AggFinish /\ Noted({}) /\ UNCHANGED diag

\* The awaited stat completes.
RaceLoadStat == AggLoadStat /\ Noted({}) /\ UNCHANGED diag

\* The awaited read completes; the file is analysed with the search paths
\* of the moment and the entry stored.
RaceLoadOpen(outcome) ==
    /\ AggLoadOpen(outcome)
    /\ LET diskDocument == [fsPath |-> load.path, version |-> 1,
                            text |-> disk[load.path].text]
       IN  request' =
              [request EXCEPT
                  !.loaded = IF outcome = "ok"
                                THEN MapSet(@, load.path, getSearchPaths(diskDocument))
                                ELSE @]
    /\ UNCHANGED diag

\* The promise of the aggregate is resolved and its result handed over.
RaceReturn ==
    /\ agg.pc = "done"
    /\ agg' = NoAggregate
    /\ last' = NoCall
    /\ request' = [request EXCEPT !.events = {}]
    /\ UNCHANGED << textDocuments, disk, configuration, documentCache, externalCache,
                    additionalSearchRoots, enableDiagnostics, load, diag >>

\* At an await the host reports an edit of an open document, or a change
\* of its dirty state; the handler invalidates the document.
RaceChange(fsPath, edited) ==
    /\ AtAwait
    /\ IsOpen(fsPath)
    /\ IF edited
       THEN /\ textDocuments[fsPath].version < MaxVersion
            /\ textDocuments' =
                   [textDocuments EXCEPT ![fsPath] =
                       [@ EXCEPT !.version = @ + 1, !.text = Edited(@)]]
       ELSE UNCHANGED textDocuments
    /\ documentCache' = invalidateDocument([fsPath |-> fsPath,
                                            version |-> textDocuments'[fsPath].version,
                                            text |-> textDocuments'[fsPath].text])
    /\ last' = Removed("invalidateDocument", fsPath, Dropped(documentCache, documentCache'))
    /\ UNCHANGED << disk, configuration, externalCache, additionalSearchRoots,
                    enableDiagnostics, load, agg, diag >>
    /\ Noted({IF edited THEN "edit" ELSE "invalidate"})

\* At an await the host closes a document; the handler evicts its path.
RaceClose(fsPath) ==
    /\ AtAwait
    /\ IsOpen(fsPath)
    /\ textDocuments' = MapDelete(textDocuments, fsPath)
    /\ documentCache' = evictPath(fsPath).documentCache
    /\ externalCache' = evictPath(fsPath).externalCache
    /\ last' = Removed("evictPath", fsPath,
                       Dropped(documentCache, documentCache')
                       + Dropped(externalCache, externalCache'))
    /\ UNCHANGED << disk, configuration, additionalSearchRoots, enableDiagnostics,
                    load, agg, diag >>
    /\ Noted({"close"})

\* At an await the host opens a file as a document at version 1;
\* refreshDiagnostics queries it.
RaceOpen(fsPath) ==
    /\ AtAwait
    /\ ~IsOpen(fsPath)
    /\ fsPath \in EditorFiles
    /\ textDocuments' = MapSet(textDocuments, fsPath,
                               [version |-> 1, text |-> disk[fsPath].text,
                                languageId |-> "wren"])
    /\ LET r == analyzeAndCache([fsPath |-> fsPath, version |-> 1,
                                 text |-> disk[fsPath].text])
       IN  /\ documentCache' = r.documentCache
           /\ last' = Returned("query", fsPath, r.analyzerCalls, 0, r.entry)
    /\ UNCHANGED << disk, configuration, externalCache, additionalSearchRoots,
                    enableDiagnostics, load, agg, diag >>
    /\ Noted({"open"})

\* At an await wren.additionalModuleDirectories changes.
RaceConfiguration(cfg) ==
    /\ AtAwait
    /\ cfg.additionalModuleDirectories # configuration.additionalModuleDirectories
    /\ cfg.enableDiagnostics = configuration.enableDiagnostics
    /\ configuration' = cfg
    /\ LET r == handleConfigurationChange(
                    Some([affectsDirectories |-> TRUE, affectsDiagnostics |-> FALSE]), cfg)
       IN  /\ additionalSearchRoots' = r.additionalSearchRoots
           /\ enableDiagnostics' = r.enableDiagnostics
           /\ externalCache' = r.externalCache
    /\ last' = Removed("handleConfigurationChange(directories)", "",
                       Dropped(externalCache, externalCache'))
    /\ UNCHANGED << textDocuments, disk, documentCache, load, agg, diag >>
    /\ Noted({"configuration"})

\* At an await, after an event, a provider queries an open document.
RaceQuery(fsPath) ==
    /\ AtAwait
    /\ request.events # {}
    /\ IsOpen(fsPath)
    /\ LET r == analyzeAndCache(Document(fsPath))
       IN  /\ documentCache' = r.documentCache
           /\ last' = Returned("query", fsPath, r.analyzerCalls, 0, r.entry)
    /\ UNCHANGED << textDocuments, disk, configuration, externalCache,
                    additionalSearchRoots, enableDiagnostics, load, agg, diag >>
    /\ Noted({})

NextRace ==
    \/ RaceStart
    \/ RacePop
    \/ RaceImport
    \/ RaceLoadStat
    \/ \E outcome \in Outcomes : RaceLoadOpen(outcome)
    \/ RaceFinish
    \/ RaceReturn
    \/ \E fsPath \in EditorFiles, edited \in BOOLEAN : RaceChange(fsPath, edited)
    \/ \E fsPath \in EditorFiles : RaceClose(fsPath)
    \/ \E fsPath \in EditorFiles : RaceOpen(fsPath)
    \/ \E cfg \in Settings : RaceConfiguration(cfg)
    \/ \E fsPath \in EditorFiles : RaceQuery(fsPath)

SpecRace == InitRace /\ [][NextRace]_vars

\* The analysis of the open document at fsPath as it is now.
LiveAnalysis(fsPath) ==
    analyzeDocument(Document(fsPath), getSearchPaths(Document(fsPath)))

\* The analysis of the file at fsPath as it is on disk now.
DiskAnalysis(fsPath) ==
    LET diskDocument == [fsPath |-> fsPath, version |-> 1, text |-> disk[fsPath].text]
    IN  analyzeDocument(diskDocument, getSearchPaths(diskDocument))

\* No Document Cache entry has the version of the live document and another
\* content than the analysis of its present text.
NoStaleDocumentEntry ==
    \A fsPath \in DOMAIN documentCache :
        IsOpen(fsPath) /\ documentCache[fsPath].index.version = textDocuments[fsPath].version
            => documentCache[fsPath] = LiveAnalysis(fsPath)

\* Every External File Cache entry was analysed with the present search
\* paths, that is, after the last clear.
NoEntryFromOlderRoots ==
    \A fsPath \in DOMAIN externalCache :
        /\ MapHas(request.loaded, fsPath)
        /\ request.loaded[fsPath]
              = getSearchPaths([fsPath |-> fsPath, version |-> 1, text |-> disk[fsPath].text])

\* A query of an open document, and a load that found the document open
\* when it was called (no stat), return the analysis of the document's
\* present version.
QueryFromCurrentVersion ==
    last.op \in {"query", "loadIndex"} /\ last.entry # None /\ last.statCalls = 0
        => /\ last.entry[1].index.version = textDocuments[last.path].version
           /\ last.entry[1] = LiveAnalysis(last.path)

\* An aggregate called after the events, with none delivered since, is made
\* of the present versions of the open documents and of the files on disk.
AggregateFromCurrentVersions ==
    agg.pc = "done" /\ request.events = {}
        => \A k \in 1..Len(agg.results) :
              LET fsPath == agg.results[k].from
              IN  fsPath \in Paths
                    => agg.results[k].classes
                          = IF IsOpen(fsPath) THEN LiveAnalysis(fsPath).index.classes
                            ELSE DiskAnalysis(fsPath).index.classes

\* C40: with edits, invalidations, closes and changes of the search roots
\* delivered at the await points of a getWorkspaceAggregate in flight, the
\* Document Cache never holds an entry of the live document's version with
\* a content from before the edit, the External File Cache never holds an
\* entry analysed under search roots from before the last clear, and a query
\* started after the event is answered from the present document version.
C40_NoStaleEntryLeft ==
    /\ NoStaleDocumentEntry
    /\ NoEntryFromOlderRoots
    /\ QueryFromCurrentVersion
    /\ AggregateFromCurrentVersions

\* An aggregate has ended during which b.wren was edited and the search
\* roots were changed, and which after that stored b.wren at its live
\* version in the Document Cache and c.wren in the External File Cache.
C40_Witness ==
    /\ agg.pc = "done"
    /\ {"edit", "configuration"} \subseteq request.events
    /\ IsOpen("/ws/b.wren")
    /\ textDocuments["/ws/b.wren"].version = 2
    /\ MapHas(documentCache, "/ws/b.wren")
    /\ documentCache["/ws/b.wren"].index.version = 2
    /\ MapHas(externalCache, "/ws/c.wren")
    /\ configuration.additionalModuleDirectories # << "", "lib" >>
    /\ \E k \in 1..Len(agg.results) : agg.results[k].from = "/ws/b.wren"

\* The result of an aggregate in flight during an edit may be out of date:
\* the classes it has of an open document are those from before the edit.
StaleAggregateReturned ==
    /\ agg.pc = "done"
    /\ "edit" \in request.events
    /\ \E k \in 1..Len(agg.results) :
          /\ agg.results[k].from \in Paths
          /\ IsOpen(agg.results[k].from)
          /\ agg.results[k].classes # LiveAnalysis(agg.results[k].from).index.classes

\* A load called while b.wren was closed returns the analysis of the disk
\* file after the document was opened and edited: the result of a call in
\* flight may be out of date.
StaleLoadReturned ==
    /\ last.op = "loadIndex"
    /\ last.statCalls = 1
    /\ last.entry # None
    /\ IsOpen(last.path)
    /\ last.entry[1] # LiveAnalysis(last.path)

\* A query at an await after an edit was answered by a fresh analysis.
QueriedAfterEdit ==
    /\ AtAwait
    /\ last.op = "query"
    /\ last.analyzerCalls = 1
    /\ "edit" \in request.events
    /\ textDocuments[last.path].version = 2

====
